---- MODULE Spec2Model ----
(***************************************************************************)
(* qrcode-server-rs (src/src/main.rs): the detector pool, the detection    *)
(* pipeline and its ingress adapters, as a state machine.                  *)
(*                                                                         *)
(* The pool is object_pool::Pool<QRCodeDetector>: a mutex-protected Vec.   *)
(* Pool::new(cap, init) pushes cap objects; pull(fallback) pops the last   *)
(* object under the lock or, when the Vec is empty, releases the lock and  *)
(* calls fallback(); dropping the Reusable guard pushes the object back    *)
(* under the lock, whatever the Vec's length.                              *)
(***************************************************************************)
EXTENDS Integers, Sequences, FiniteSets, TLC

\* ---------------------------------------------------------------- bounds
NReq == 2            \* request tasks that can be in flight at once
MaxWarm == 2         \* Spec draws POOL_INITIAL_SIZE from 1..MaxWarm
MaxCap == 2          \* Spec draws POOL_MAX_SIZE from 1..MaxCap
MaxClock == 3        \* the monotonic clock is observed up to this nanosecond
MaxCodes == 1        \* texts the detector returns for one image

\* ------------------------------------------------------ program constants
DefaultInitialSize == 10
DefaultMaxSize == 50
MinInitialSize == 1
MaxInitialSize == 100
MaxMaxSize == 200
StatusOk == 200
StatusBadRequest == 400
StatusInternalServerError == 500

Reqs == 1..NReq
FirstReq == CHOOSE r \in Reqs : \A q \in Reqs : r <= q

Min2(a, b) == IF a <= b THEN a ELSE b
Max2(a, b) == IF a >= b THEN a ELSE b

\* ---------------------------------------------------------------- f64
\* The f64 arithmetic of the reported times, bit for bit on the values that
\* occur: an f64 is its 53-bit significand m, the lowest binary digit first,
\* and its exponent e, the value being m * 2^e; zero has no digits.
F64Zero == [m |-> <<>>, e |-> 0]

\* The binary digits, lowest first, of the sum of two numbers given so.
RECURSIVE AddBits(_, _, _)
AddBits(a, b, carry) ==
    IF a = <<>> /\ b = <<>> THEN (IF carry = 0 THEN <<>> ELSE <<carry>>)
    ELSE IF a = <<>> THEN <<(b[1] + carry) % 2>> \o AddBits(a, Tail(b), (b[1] + carry) \div 2)
    ELSE IF b = <<>> THEN <<(a[1] + carry) % 2>> \o AddBits(Tail(a), b, (a[1] + carry) \div 2)
    ELSE <<(a[1] + b[1] + carry) % 2>> \o AddBits(Tail(a), Tail(b), (a[1] + b[1] + carry) \div 2)

\* The digits of a number times a small integer k.
RECURSIVE MulBits(_, _, _)
MulBits(a, k, carry) ==
    IF a = <<>> THEN (IF carry = 0 THEN <<>> ELSE <<carry % 2>> \o MulBits(a, k, carry \div 2))
    ELSE <<(a[1] * k + carry) % 2>> \o MulBits(Tail(a), k, (a[1] * k + carry) \div 2)

\* The low `width` binary digits of n.
BitsOf(n, width) == [i \in 1..width |-> (n \div 2^(i - 1)) % 2]

\* n / 10^9 is (n / 5^9) / 2^9.  The first k digits to base 1024 behind the
\* point of r / 5^9, for r < 5^9, as binary digits; below them one digit
\* more, a one when the quotient goes on behind them.
RECURSIVE FractionBits(_, _)
FractionBits(r, k) ==
    IF k = 0 THEN <<IF r = 0 THEN 0 ELSE 1>>
    ELSE FractionBits((r * 1024) % 1953125, k - 1) \o BitsOf((r * 1024) \div 1953125, 10)

\* A number's digits without the zeros above its highest one.
Significant(bits) ==
    SubSeq(bits, 1, CHOOSE i \in 1..Len(bits) :
                        bits[i] = 1 /\ \A j \in (i + 1)..Len(bits) : bits[j] = 0)

\* Round to nearest, ties to even: the f64 nearest to a number of 55 digits
\* or more, the highest a one, whose lowest digit stands for all that lies
\* below it; e is the exponent of the lowest digit.
RoundToF64(bits, e) ==
    IF /\ bits[Len(bits) - 53] = 1
       /\ \/ bits[Len(bits) - 52] = 1
          \/ \E i \in 1..(Len(bits) - 54) : bits[i] = 1
    THEN IF \A i \in (Len(bits) - 52)..Len(bits) : bits[i] = 1
         THEN [m |-> [i \in 1..53 |-> IF i = 53 THEN 1 ELSE 0], e |-> e + Len(bits) - 52]
         ELSE [m |-> AddBits(SubSeq(bits, Len(bits) - 52, Len(bits)), <<1>>, 0),
               e |-> e + Len(bits) - 53]
    ELSE [m |-> SubSeq(bits, Len(bits) - 52, Len(bits)), e |-> e + Len(bits) - 53]

\* Duration::as_secs_f64 of a duration of n nanoseconds, below one second:
\* (secs as f64) + (nanos as f64) / 1e9, the quotient rounded once and the
\* sum with 0.0 exact.  Nine digits to base 1024 behind the point leave 69
\* binary digits or more from the highest one on.
AsSecsF64(n) ==
    IF n = 0 THEN F64Zero
    ELSE RoundToF64(Significant(FractionBits(n % 1953125, 9) \o BitsOf(n \div 1953125, 9)),
                    0 - 100)

\* x * 1000.0: the product, rounded once more.
F64TimesThousand(x) ==
    IF x = F64Zero THEN F64Zero ELSE RoundToF64(MulBits(x.m, 1000, 0), x.e)

\* elapsed().as_secs_f64() * 1000.0 after n nanoseconds, for every duration
\* the clock can show (lines 363,
\* 375, 398, 406, 410 and their like in the other pipelines).
Millis == [n \in 0..MaxClock |-> F64TimesThousand(AsSecsF64(n))]


\* ------------------------------------------------------------ environment
\* The value of an environment variable: absent, text that is no unsigned
\* number, a digit string within usize, or a digit string above usize::MAX.
Absent == [kind |-> "absent", n |-> 0]
NotANumber == [kind |-> "text", n |-> 0]
Overflowing == [kind |-> "overflow", n |-> 0]
Digits(k) == [kind |-> "digits", n |-> k]

\* str::parse::<usize>: Ok(n) for a digit string that fits, Err otherwise.
ParseUsize(v) ==
    IF v.kind = "digits" THEN [ok |-> TRUE, n |-> v.n] ELSE [ok |-> FALSE, n |-> 0]

\* std::env::var(NAME).unwrap_or_else(|_| default.to_string())
EnvOrDefault(v, default) == IF v.kind = "absent" THEN Digits(default) ELSE v

UnwrapOr(res, default) == IF res.ok THEN res.n ELSE default

\* A plausible slip: the lower clamp of the initial size left out.
InitialSizeOfNoFloor(v) ==
    Min2(UnwrapOr(ParseUsize(EnvOrDefault(v, DefaultInitialSize)), DefaultInitialSize),
         MaxInitialSize)

InitialSizeOf(v) ==
    Min2(Max2(UnwrapOr(ParseUsize(EnvOrDefault(v, DefaultInitialSize)), DefaultInitialSize),
              MinInitialSize),
         MaxInitialSize)

MaxSizeOf(v, initial_size) ==
    Min2(Max2(UnwrapOr(ParseUsize(EnvOrDefault(v, DefaultMaxSize)), DefaultMaxSize),
              initial_size),
         MaxMaxSize)

get_pool_config(e) ==
    [initial_size |-> InitialSizeOf(e.POOL_INITIAL_SIZE),
     max_size |-> MaxSizeOf(e.POOL_MAX_SIZE, InitialSizeOf(e.POOL_INITIAL_SIZE))]

\* ------------------------------------------------------------------ state
\* A request's `outcome` records how far its pipeline got: "" while running,
\* then "missing_field", "bad_base64", "decode_error" (the codec returned Err),
\* "empty_image", "detector_error" or "detected"; in the legacy variant also
\* "construct_error" (QRCodeDetector::new() returned Err in the handler).
VARIABLES
    env,          \* POOL_INITIAL_SIZE and POOL_MAX_SIZE of the process
    mainPc,       \* position of main()
    mainConfig,   \* (initial_pool_size, max_pool_size) main read for its log lines
    once,         \* POOL_INIT: "incomplete", "running", "complete", "poisoned"
    runner,       \* the caller executing the call_once closure (0 is main), -1 if none
    building,     \* the Vec that Pool::new is filling
    warmTarget,   \* initial_size read by the closure
    POOL,         \* static mut POOL: Option<Pool>; objects is the mutex-protected Vec
    constructed,  \* detectors built so far by QRCodeDetector::new(); the last id given
    warmups,      \* executions of the call_once closure started so far
    now,          \* the monotonic clock behind Instant::now()
    req,          \* the request tasks
    geom,         \* the call of detect_qr_codes followed: its image, the detector's output, its result
    ws,           \* one WebSocket connection: its inbound stream, position and sent messages
    upload,       \* one multipart body: its fields, and what detect_from_file's loop took
    peak          \* history: the most requests so far inside pull..release, and holding

vars == <<env, mainPc, mainConfig, once, runner, building, warmTarget, POOL,
          constructed, warmups, now, req, geom, ws, upload, peak>>

\* What the steps of main, of the pool and of the HTTP pipeline leave alone.
Detached == <<geom, ws, upload, peak>>

Main == 0
Callers == {Main} \cup Reqs

NoConfig == [initial_size |-> 0, max_size |-> 0]
NoPool == [some |-> FALSE, objects |-> <<>>]

NoMessage == [tag |-> "", n |-> 0]
\* DetectionResponse with its DetectionStatistics (lines 37-65); the times
\* are f64.
NoBody ==
    [success |-> FALSE, message |-> NoMessage, qrcodes |-> <<>>, count |-> 0,
     statistics |->
        [image_decode_time_ms |-> F64Zero, detection_time_ms |-> F64Zero,
         total_time_ms |-> F64Zero, image_width |-> 0, image_height |-> 0,
         pool_acquisition_time_ms |-> F64Zero]]
NoRet == [tag |-> "none", status |-> 0, cause |-> "", body |-> NoBody]
NoResp ==
    [via |-> "none", status |-> 0, msg_type |-> "", success |-> FALSE,
     message |-> NoMessage, has_body |-> FALSE, body |-> NoBody]
NoImage == [empty |-> TRUE, width |-> 0, height |-> 0]
NoBuf == <<>>
NoData == [encoding |-> "none", buf |-> NoBuf]

NoRaw == [ok |-> FALSE, texts |-> <<>>, points |-> <<>>]
NoGeom ==
    [pc |-> "none", image |-> NoImage, raw |-> NoRaw,
     ret |-> [ok |-> FALSE, results |-> <<>>]]
\* A frame handle_websocket sends: a WebSocketResponse envelope or a pong.
NoFrame ==
    [frame |-> "none", msg_type |-> "", success |-> FALSE, message |-> "",
     has_result |-> FALSE, re |-> 0, outcome |-> "", payload |-> NoBuf]

NoSession ==
    [pc |-> "none", log |-> <<>>, pings |-> <<>>, reply |-> NoFrame, sent |-> <<>>,
     end |-> ""]
NoUpload ==
    [pc |-> "none", fields |-> <<>>, got |-> [ok |-> FALSE, data |-> NoData], stopped |-> 0]

IdleReq ==
    [pc |-> "idle", kind |-> "none", data |-> NoData, image |-> NoImage,
     start_time |-> 0, decode_start |-> 0, decode_time |-> F64Zero,
     pool_start |-> 0, pool_acquisition_time |-> F64Zero,
     detection_start |-> 0, held |-> 0,
     outcome |-> "", ret |-> NoRet, resp |-> NoResp]

Kinds == {"file", "base64", "ws_text", "ws_binary"}

\* ------------------------------------------------------ request payloads
\* A byte buffer is the sequence of its bytes, and the instants of the clock
\* are nanoseconds.  The image codec is OpenCV's: EncodedImages lists the
\* buffers that stand for encoded images here (they begin as a JPEG and as a
\* PNG file do), with the size of the image each decodes to; any other
\* buffer with bytes is one no decoder recognises.
EncodedImages ==
    {[bytes |-> <<255, 216, 255>>, width |-> 640, height |-> 480],
     [bytes |-> <<137, 80>>, width |-> 1, height |-> 2]}

Bufs == {<<>>, <<0>>, <<255, 216, 255>>}

\* A base64 text is the sequence of its characters: 0..63 for the characters
\* of the standard alphabet by their value, 64 for '=', 65 for a character
\* outside the alphabet.  The text a client sends for a buffer of up to
\* three bytes is its RFC 4648 encoding, with padding.
Base64Encode(bytes) ==
    CASE Len(bytes) = 0 -> <<>>
      [] Len(bytes) = 1 -> <<bytes[1] \div 4, (bytes[1] % 4) * 16, 64, 64>>
      [] Len(bytes) = 2 ->
           <<bytes[1] \div 4, (bytes[1] % 4) * 16 + bytes[2] \div 16,
             (bytes[2] % 16) * 4, 64>>
      [] Len(bytes) = 3 ->
           <<bytes[1] \div 4, (bytes[1] % 4) * 16 + bytes[2] \div 16,
             (bytes[2] % 16) * 4 + bytes[3] \div 64, bytes[3] % 64>>

\* The texts of the requests: the encodings of the buffers ("", "AA==" and
\* "/9j/"), and two that are no base64, "AA" and "*AAA".
Base64Texts == {Base64Encode(b) : b \in Bufs} \cup {<<0, 0>>, <<65, 0, 0, 0>>}

\* A multipart field; the name "<error>" stands for next_field() or bytes()
\* returning Err at that position of the stream.
Fields == [name : {"image", "file", "other", "", "<error>"}, buf : Bufs]

\* The payload of one request of each ingress kind.
\*   file:      the multipart fields in stream order: none, one, or one
\*              the loop passes over and one more
\*   base64:    the JSON map: has_image, and the text under "image"
\*   ws_text:   a "detect" envelope: has_image, and the text of `image`
\*   ws_binary: the frame's bytes
Payloads ==
    [file |-> {[fields |-> fl, has_image |-> FALSE, buf |-> NoBuf] :
                  fl \in {<<>>} \cup {<<f>> : f \in Fields}
                         \cup {<<f, g>> : f \in {x \in Fields : x.name \in {"other", ""}},
                                          g \in Fields}},
     base64 |-> {[fields |-> <<>>, has_image |-> h, buf |-> t] :
                    h \in BOOLEAN, t \in Base64Texts},
     ws_text |-> {[fields |-> <<>>, has_image |-> h, buf |-> t] :
                     h \in BOOLEAN, t \in Base64Texts},
     ws_binary |-> {[fields |-> <<>>, has_image |-> TRUE, buf |-> b] : b \in Bufs}]

\* A plausible slip: only the field name "image" accepted.
RECURSIVE ScanFieldsImageOnly(_, _)
ScanFieldsImageOnly(fields, i) ==
    IF i > Len(fields) THEN [ok |-> FALSE, buf |-> NoBuf]
    ELSE IF fields[i].name = "<error>" THEN [ok |-> FALSE, buf |-> NoBuf]
    ELSE IF fields[i].name = "image"
         THEN [ok |-> TRUE, buf |-> fields[i].buf]
    ELSE ScanFieldsImageOnly(fields, i + 1)

\* detect_from_file's loop over the fields (lines 342-346, 432): the bytes of
\* the first field named image or file; BAD_REQUEST when the stream fails
\* first or ends without such a field.
RECURSIVE ScanFields(_, _)
ScanFields(fields, i) ==
    IF i > Len(fields) THEN [ok |-> FALSE, buf |-> NoBuf]
    ELSE IF fields[i].name = "<error>" THEN [ok |-> FALSE, buf |-> NoBuf]
    ELSE IF fields[i].name = "image" \/ fields[i].name = "file"
         THEN [ok |-> TRUE, buf |-> fields[i].buf]
    ELSE ScanFields(fields, i + 1)

\* The position in the stream at which that loop ends: the field it returns
\* from, or one past the last field when next_field() gave None.
RECURSIVE StoppedAt(_, _)
StoppedAt(fields, i) ==
    IF i > Len(fields) THEN i
    ELSE IF fields[i].name \in {"<error>", "image", "file"} THEN i
    ELSE StoppedAt(fields, i + 1)

\* What each adapter hands on before any decoding: the raw bytes, or the
\* base64 text, or the rejection (lines 342-346 and 432; 439; 641 and 663-673;
\* none for a binary frame).
ExtractBuffer(kind, payload) ==
    IF kind = "file"
    THEN [ok |-> ScanFields(payload.fields, 1).ok,
          data |-> IF ScanFields(payload.fields, 1).ok
                   THEN [encoding |-> "raw", buf |-> ScanFields(payload.fields, 1).buf]
                   ELSE NoData]
    ELSE IF kind = "ws_binary"
    THEN [ok |-> TRUE, data |-> [encoding |-> "raw", buf |-> payload.buf]]
    ELSE IF payload.has_image
    THEN [ok |-> TRUE, data |-> [encoding |-> "base64", buf |-> payload.buf]]
    ELSE [ok |-> FALSE, data |-> NoData]

\* The bytes of a text's 6-bit characters, four characters to three bytes; a
\* last group of two or three characters gives one or two bytes.
RECURSIVE DecodeQuads(_)
DecodeQuads(body) ==
    IF Len(body) < 2 THEN <<>>
    ELSE IF Len(body) = 2 THEN <<body[1] * 4 + body[2] \div 16>>
    ELSE IF Len(body) = 3
    THEN <<body[1] * 4 + body[2] \div 16, (body[2] % 16) * 16 + body[3] \div 4>>
    ELSE <<body[1] * 4 + body[2] \div 16, (body[2] % 16) * 16 + body[3] \div 4,
           (body[3] % 4) * 64 + body[4]>> \o DecodeQuads(SubSeq(body, 5, Len(body)))

\* BASE64_STANDARD.decode (lines 446, 732): the bytes the text encodes.  Err
\* for a character outside the alphabet or a '=' ahead of the end, for a
\* length that is no multiple of four (the engine requires the padding), for
\* more than two '=', and for a last character with bits set beyond the last
\* byte.
Base64Decode(text) ==
    LET pads == Cardinality({i \in 1..Len(text) : \A j \in i..Len(text) : text[j] = 64})
        body == SubSeq(text, 1, Len(text) - pads)
    IN IF \/ \E i \in 1..Len(body) : body[i] >= 64
          \/ Len(text) % 4 # 0
          \/ pads > 2
          \/ Len(body) % 4 = 2 /\ body[Len(body)] % 16 # 0
          \/ Len(body) % 4 = 3 /\ body[Len(body)] % 4 # 0
       THEN [ok |-> FALSE, buf |-> NoBuf]
       ELSE [ok |-> TRUE, buf |-> DecodeQuads(body)]

\* Mat::from_slice followed by imdecode (lines 352-361): Err for a buffer
\* without bytes (imdecode asserts a non-empty buffer), Ok(empty Mat) when no
\* decoder accepts the bytes, Ok(image) otherwise.
DecodeImage(buf) ==
    IF buf = <<>> THEN [ok |-> FALSE, image |-> NoImage]
    ELSE IF \A f \in EncodedImages : f.bytes # buf THEN [ok |-> TRUE, image |-> NoImage]
    ELSE [ok |-> TRUE,
          image |-> [empty |-> FALSE,
                     width |-> (CHOOSE f \in EncodedImages : f.bytes = buf).width,
                     height |-> (CHOOSE f \in EncodedImages : f.bytes = buf).height]]

\* ------------------------------------------------------------ the detector
SeqsUpTo(S, n) == UNION {[1..k -> S] : k \in 0..n}

\* What detect_and_decode hands back: Err, or the texts and the corner Mats,
\* a Mat by its shape: 4x2, 8x1, 1x8, and two unusable ones.
RawOutputs ==
    {[ok |-> FALSE, texts |-> <<>>, points |-> <<>>]} \cup
    {[ok |-> TRUE, texts |-> t, points |-> p] :
        t \in SeqsUpTo({"a", "b"}, MaxCodes),
        p \in SeqsUpTo({[rows |-> 4, cols |-> 2], [rows |-> 8, cols |-> 1],
                        [rows |-> 1, cols |-> 8], [rows |-> 2, cols |-> 2],
                        [rows |-> 0, cols |-> 0]}, MaxCodes)}

\* A plausible slip: the flattened test made before the row/column test.
GeometryPathFlatFirst(raw, i) ==
    IF i <= Len(raw.points)
    THEN IF raw.points[i].rows * raw.points[i].cols >= 8 THEN "flat"
         ELSE IF raw.points[i].rows >= 4 /\ raw.points[i].cols >= 2 THEN "rows"
         ELSE "fallback_invalid"
    ELSE "fallback_absent"

\* The geometry path detect_qr_codes takes for text i (lines 129-167, 193).
GeometryPath(raw, i) ==
    IF i <= Len(raw.points)
    THEN IF raw.points[i].rows >= 4 /\ raw.points[i].cols >= 2 THEN "rows"
         ELSE IF raw.points[i].rows * raw.points[i].cols >= 8 THEN "flat"
         ELSE "fallback_invalid"
    ELSE "fallback_absent"

\* detect_qr_codes (lines 114-229): Err when the detector fails, else one
\* entry per text, in detector order.
detect_qr_codes(raw) ==
    IF ~raw.ok THEN [ok |-> FALSE, qrcodes |-> <<>>]
    ELSE [ok |-> TRUE,
          qrcodes |-> [i \in 1..Len(raw.texts) |->
                          [text |-> raw.texts[i], path |-> GeometryPath(raw, i)]]]

\* ---------------------------------------------------------------- f32
\* The f32 arithmetic of the corner geometry (lines 140-222), bit for bit on
\* the values that occur there: finite and not negative.  [m, e] stands for
\* m * 2^e with 2^23 <= m < 2^24; zero is [m |-> 0, e |-> 0].  Every
\* operation rounds to nearest, ties to even, as IEEE 754 binary32 does.
\* The number of bits of n: the least k in lo..hi with n < 2^k.
RECURSIVE BitLenIn(_, _, _)
BitLenIn(n, lo, hi) ==
    IF lo = hi THEN lo
    ELSE IF n < 2^((lo + hi) \div 2) THEN BitLenIn(n, lo, (lo + hi) \div 2)
    ELSE BitLenIn(n, (lo + hi) \div 2 + 1, hi)

F32Zero == [m |-> 0, e |-> 0]
\* f32::INFINITY and f32::NEG_INFINITY, the seeds of the folds (lines 171-174).
F32Infinity == [m |-> 0, e |-> 1]
F32NegInfinity == [m |-> 0, e |-> -1]

\* The f32 nearest to n * 2^e, for an integer n >= 0.
RoundToF32(n, e) ==
    IF n = 0 THEN F32Zero
    ELSE LET len == BitLenIn(n, 0, 31)
             s == len - 24
             q == n \div 2^s
             r == n % 2^s
             up == r > 2^(s - 1) \/ (r = 2^(s - 1) /\ q % 2 = 1)
         IN IF len <= 24 THEN [m |-> n * 2^(24 - len), e |-> e - (24 - len)]
            ELSE IF up /\ q + 1 = 2^24 THEN [m |-> 2^23, e |-> e + s + 1]
            ELSE [m |-> IF up THEN q + 1 ELSE q, e |-> e + s]

\* `n as f32` for a non-negative i32 (lines 154-155, 196-197).
F32FromInt(n) == RoundToF32(n, 0)

F32Lt(a, b) ==
    IF b.m = 0 THEN FALSE
    ELSE IF a.m = 0 THEN TRUE
    ELSE a.e < b.e \/ (a.e = b.e /\ a.m < b.m)

\* f32::min and f32::max as the folds use them.
F32Min(a, b) == IF a = F32Infinity THEN b ELSE IF F32Lt(b, a) THEN b ELSE a
F32Max(a, b) == IF a = F32NegInfinity THEN b ELSE IF F32Lt(a, b) THEN b ELSE a

\* a + b, and a - b for a >= b.  The operand of the smaller exponent is
\* shifted right behind five guard bits and a sticky bit.
F32AddSub(a, b, sign) ==
    LET hi == IF F32Lt(a, b) THEN b ELSE a
        lo == IF F32Lt(a, b) THEN a ELSE b
        d == hi.e - lo.e
        sh == d - 5
        bq == IF sh >= 24 THEN 0 ELSE lo.m \div 2^sh
        sticky == IF sh >= 24 THEN 1 ELSE IF lo.m % 2^sh # 0 THEN 1 ELSE 0
    IN IF lo.m = 0 THEN hi
       ELSE IF d <= 5
       THEN RoundToF32(hi.m * 2^d + sign * lo.m, lo.e)
       ELSE IF sign = 1
       THEN RoundToF32(2 * (hi.m * 32 + bq) + sticky, hi.e - 6)
       ELSE RoundToF32(2 * (hi.m * 32 - bq - sticky) + sticky, hi.e - 6)

F32Add(a, b) == F32AddSub(a, b, 1)
F32Sub(a, b) == F32AddSub(a, b, -1)

\* a * b: the 48-bit product of the mantissas from 12-bit halves, cut to its
\* leading bits and a sticky bit.
F32Mul(a, b) ==
    LET ah == a.m \div 4096
        al == a.m % 4096
        bh == b.m \div 4096
        bl == b.m % 4096
        mid == ah * bl + al * bh
        low == (mid % 4096) * 4096 + al * bl
        high == ah * bh + mid \div 4096 + low \div 2^24
        rest == low % 2^24
        sticky == IF rest % 2^21 # 0 THEN 1 ELSE 0
    IN IF a.m = 0 \/ b.m = 0 THEN F32Zero
       ELSE RoundToF32(2 * (high * 8 + rest \div 2^21) + sticky, a.e + b.e + 20)

\* The number of trailing zero bits of n > 0: the greatest k in lo..hi with
\* 2^k dividing n.
RECURSIVE TrailingZerosIn(_, _, _)
TrailingZerosIn(n, lo, hi) ==
    IF lo = hi THEN lo
    ELSE IF n % 2^((lo + hi + 1) \div 2) = 0
    THEN TrailingZerosIn(n, (lo + hi + 1) \div 2, hi)
    ELSE TrailingZerosIn(n, lo, (lo + hi + 1) \div 2 - 1)

\* a / b for a divisor whose odd part is below 32 (2.0 and 10.0 in the code,
\* 100.0 for the corner values): a quotient of 25 bits or more and a sticky
\* bit.
F32Div(a, b) ==
    LET tz == TrailingZerosIn(b.m, 0, 23)
        sb == b.m \div 2^tz
        num == a.m * 64
        sticky == IF num % sb # 0 THEN 1 ELSE 0
    IN IF a.m = 0 THEN F32Zero
       ELSE RoundToF32(2 * (num \div sb) + sticky, a.e - (b.e + tz) - 7)

\* f32::round: to the nearest integer, halves away from zero.
F32Round(a) ==
    IF a.m = 0 \/ a.e >= 0 THEN a
    ELSE IF -a.e > 24 THEN F32Zero
    ELSE RoundToF32(a.m \div 2^(-a.e)
                    + (IF a.m % 2^(-a.e) >= 2^(-a.e - 1) THEN 1 ELSE 0), 0)

\* (v * 10.0).round() / 10.0 (lines 140-141, 147-148, 177-180).
RoundToTenth(v) == F32Div(F32Round(F32Mul(v, F32FromInt(10))), F32FromInt(10))

\* The f32 nearest to n / 100: a corner value written in hundredths of a pixel.
F32FromHundredths(n) == F32Div(F32FromInt(n), F32FromInt(100))

\* ------------------------------------------------------- corner geometry
\* One corner-point Mat of the detector: its shape, whether its elements are
\* f32 (at and at_2d return Err for any other element type), and its elements
\* in row-major order.
at_2d(mat, row, col) == mat.data[row * mat.cols + col + 1]
at(mat, i0) == mat.data[i0 + 1]

\* A plausible slip: the columns read as (y, x).
RowsPathSwapped(mat) ==
    [j \in 1..4 |-> <<RoundToTenth(at_2d(mat, j - 1, 1)),
                      RoundToTenth(at_2d(mat, j - 1, 0))>>]

\* Rows 0..3, columns 0 and 1 (lines 139-143).
RowsPath(mat) ==
    [j \in 1..4 |-> <<RoundToTenth(at_2d(mat, j - 1, 0)),
                      RoundToTenth(at_2d(mat, j - 1, 1))>>]

\* A plausible slip: the flat data read as four x values, then four y values.
FlatPathPlanar(mat) ==
    [j \in 1..4 |-> <<RoundToTenth(at(mat, j - 1)),
                      RoundToTenth(at(mat, j - 1 + 4))>>]

\* Elements 2j and 2j+1 (lines 146-150).
FlatPath(mat) ==
    [j \in 1..4 |-> <<RoundToTenth(at(mat, (j - 1) * 2)),
                      RoundToTenth(at(mat, (j - 1) * 2 + 1))>>]

\* The default region from the image size (lines 154-166 and 196-208); the
\* f32 nearest to 0.6 is 10066330 * 2^-24.
FallbackSquare(image) ==
    LET img_width == F32FromInt(image.width)
        img_height == F32FromInt(image.height)
        size == F32Mul(F32Min(img_width, img_height), [m |-> 10066330, e |-> -24])
        x_offset == F32Div(F32Sub(img_width, size), F32FromInt(2))
        y_offset == F32Div(F32Sub(img_height, size), F32FromInt(2))
    IN <<<<x_offset, y_offset>>,
         <<F32Add(x_offset, size), y_offset>>,
         <<F32Add(x_offset, size), F32Add(y_offset, size)>>,
         <<x_offset, F32Add(y_offset, size)>>>>

\* coordinates.iter().map(|p| p[k]).fold(seed, f32::min) and the same with
\* f32::max (lines 171-174, 210-213).
RECURSIVE FoldMin(_, _, _)
FoldMin(acc, coordinates, k) ==
    IF coordinates = <<>> THEN acc
    ELSE FoldMin(F32Min(acc, Head(coordinates)[k]), Tail(coordinates), k)

RECURSIVE FoldMax(_, _, _)
FoldMax(acc, coordinates, k) ==
    IF coordinates = <<>> THEN acc
    ELSE FoldMax(F32Max(acc, Head(coordinates)[k]), Tail(coordinates), k)

\* The bounding box when corner data was present (lines 171-190).
RoundedBBox(coordinates) ==
    LET min_x == FoldMin(F32Infinity, coordinates, 1)
        max_x == FoldMax(F32NegInfinity, coordinates, 1)
        min_y == FoldMin(F32Infinity, coordinates, 2)
        max_y == FoldMax(F32NegInfinity, coordinates, 2)
    IN [x |-> RoundToTenth(min_x),
        y |-> RoundToTenth(min_y),
        width |-> RoundToTenth(F32Sub(max_x, min_x)),
        height |-> RoundToTenth(F32Sub(max_y, min_y))]

\* The bounding box when there was no corner data (lines 210-223).
PlainBBox(coordinates) ==
    LET min_x == FoldMin(F32Infinity, coordinates, 1)
        max_x == FoldMax(F32NegInfinity, coordinates, 1)
        min_y == FoldMin(F32Infinity, coordinates, 2)
        max_y == FoldMax(F32NegInfinity, coordinates, 2)
    IN [x |-> min_x,
        y |-> min_y,
        width |-> F32Sub(max_x, min_x),
        height |-> F32Sub(max_y, min_y)]

NoBBox == [x |-> F32Zero, y |-> F32Zero, width |-> F32Zero, height |-> F32Zero]
NoResult == [text |-> "", path |-> "", points |-> <<>>, bbox |-> NoBBox]

\* A plausible slip: no default region for a Mat too small to read, so that
\* its coordinate list stays empty.
CoordinatesWithoutFallback(image, raw, i) ==
    LET path == GeometryPath(raw, i) IN
    IF path = "rows"
    THEN [ok |-> raw.points[i].f32,
          points |-> IF raw.points[i].f32 THEN RowsPath(raw.points[i]) ELSE <<>>]
    ELSE IF path = "flat"
    THEN [ok |-> raw.points[i].f32,
          points |-> IF raw.points[i].f32 THEN FlatPath(raw.points[i]) ELSE <<>>]
    ELSE IF path = "fallback_invalid" THEN [ok |-> TRUE, points |-> <<>>]
    ELSE [ok |-> TRUE, points |-> FallbackSquare(image)]

\* The coordinate list of text i (lines 129-167, 203-208): Err when an
\* element read fails.
Coordinates(image, raw, i) ==
    LET path == GeometryPath(raw, i) IN
    IF path = "rows"
    THEN [ok |-> raw.points[i].f32,
          points |-> IF raw.points[i].f32 THEN RowsPath(raw.points[i]) ELSE <<>>]
    ELSE IF path = "flat"
    THEN [ok |-> raw.points[i].f32,
          points |-> IF raw.points[i].f32 THEN FlatPath(raw.points[i]) ELSE <<>>]
    ELSE [ok |-> TRUE, points |-> FallbackSquare(image)]

\* The entry for a text whose coordinate list is c, got by the path named
\* (lines 169-225): Err when an element read failed, nothing to push when
\* the list is empty.
EntryOf(text, path, c) ==
    IF ~c.ok THEN [ok |-> FALSE, emit |-> FALSE, result |-> NoResult]
    ELSE IF path = "fallback_absent"
    THEN [ok |-> TRUE, emit |-> TRUE,
          result |-> [text |-> text, path |-> path,
                      points |-> c.points, bbox |-> PlainBBox(c.points)]]
    ELSE IF c.points # <<>>
    THEN [ok |-> TRUE, emit |-> TRUE,
          result |-> [text |-> text, path |-> path,
                      points |-> c.points, bbox |-> RoundedBBox(c.points)]]
    ELSE [ok |-> TRUE, emit |-> FALSE, result |-> NoResult]

\* One pass of the loop body for text i (lines 126-225).
EntryFor(image, raw, i) ==
    EntryOf(raw.texts[i], GeometryPath(raw, i), Coordinates(image, raw, i))

\* results.push(entry) before the entries of the later texts; an Err of any
\* pass is the Err of the call.
PushEntry(entry, later) ==
    IF ~entry.ok \/ ~later.ok THEN [ok |-> FALSE, results |-> <<>>]
    ELSE [ok |-> TRUE,
          results |-> (IF entry.emit THEN <<entry.result>> ELSE <<>>) \o later.results]

\* The loop over the texts from text i on (lines 125-228).
RECURSIVE CollectResults(_, _, _)
CollectResults(image, raw, i) ==
    IF i > Len(raw.texts) THEN [ok |-> TRUE, results |-> <<>>]
    ELSE PushEntry(EntryFor(image, raw, i), CollectResults(image, raw, i + 1))

\* detect_qr_codes with its coordinates (lines 114-229): Err when the
\* detector or an element read fails, else the entries in detector order.
QRCodeResults(image, raw) ==
    IF ~raw.ok THEN [ok |-> FALSE, results |-> <<>>]
    ELSE CollectResults(image, raw, 1)

\* ------------------------------------------------------------- responses
IsHttp(kind) == kind = "file" \/ kind = "base64"

\* The response of the image.empty() branch, as each pipeline writes it:
\* detect_from_file (lines 365-381), detect_from_base64 (464-479),
\* detect_qr_from_base64 (744-759), detect_qr_from_binary (817-832).
SoftResponse(kind, decode_time, total_time) ==
    CASE kind = "file" ->
         [success |-> FALSE,
          message |-> [tag |-> "Invalid image format", n |-> 0],
          qrcodes |-> <<>>,
          count |-> 0,
          statistics |->
             [image_decode_time_ms |-> decode_time, detection_time_ms |-> F64Zero,
              total_time_ms |-> total_time, image_width |-> 0,
              image_height |-> 0, pool_acquisition_time_ms |-> F64Zero]]
      [] kind = "base64" ->
         [success |-> FALSE,
          message |-> [tag |-> "Invalid image format", n |-> 0],
          qrcodes |-> <<>>,
          count |-> 0,
          statistics |->
             [image_decode_time_ms |-> decode_time, detection_time_ms |-> F64Zero,
              total_time_ms |-> total_time, image_width |-> 0,
              image_height |-> 0, pool_acquisition_time_ms |-> F64Zero]]
      [] kind = "ws_text" ->
         [success |-> FALSE,
          message |-> [tag |-> "Invalid image format", n |-> 0],
          qrcodes |-> <<>>,
          count |-> 0,
          statistics |->
             [image_decode_time_ms |-> decode_time, detection_time_ms |-> F64Zero,
              total_time_ms |-> total_time, image_width |-> 0,
              image_height |-> 0, pool_acquisition_time_ms |-> F64Zero]]
      [] kind = "ws_binary" ->
         [success |-> FALSE,
          message |-> [tag |-> "Invalid image format", n |-> 0],
          qrcodes |-> <<>>,
          count |-> 0,
          statistics |->
             [image_decode_time_ms |-> decode_time, detection_time_ms |-> F64Zero,
              total_time_ms |-> total_time, image_width |-> 0,
              image_height |-> 0, pool_acquisition_time_ms |-> F64Zero]]

\* A plausible slip: count taken before the last entry was pushed.
SuccessResponseStaleCount(kind, qrcodes, decode_time, pool_acquisition_time, detection_time, total_time, image) ==
    [success |-> TRUE,
     message |-> [tag |-> "Detected QR code(s)", n |-> Len(qrcodes)],
     count |-> IF Len(qrcodes) = 0 THEN 0 ELSE Len(qrcodes) - 1,
     qrcodes |-> qrcodes,
     statistics |->
        [image_decode_time_ms |-> decode_time, detection_time_ms |-> detection_time,
         total_time_ms |-> total_time, image_width |-> image.width,
         image_height |-> image.height, pool_acquisition_time_ms |-> pool_acquisition_time]]

\* The response after a detection that returned Ok, as each pipeline writes
\* it: detect_from_file (lines 415-428), detect_from_base64 (512-525),
\* detect_qr_from_base64 (785-798), detect_qr_from_binary (858-871).
SuccessResponse(kind, qrcodes, decode_time, pool_acquisition_time, detection_time, total_time, image) ==
    CASE kind = "file" ->
         [success |-> TRUE,
          message |-> [tag |-> "Detected QR code(s)", n |-> Len(qrcodes)],
          count |-> Len(qrcodes),
          qrcodes |-> qrcodes,
          statistics |->
             [image_decode_time_ms |-> decode_time, detection_time_ms |-> detection_time,
              total_time_ms |-> total_time, image_width |-> image.width,
              image_height |-> image.height, pool_acquisition_time_ms |-> pool_acquisition_time]]
      [] kind = "base64" ->
         [success |-> TRUE,
          message |-> [tag |-> "Detected QR code(s)", n |-> Len(qrcodes)],
          count |-> Len(qrcodes),
          qrcodes |-> qrcodes,
          statistics |->
             [image_decode_time_ms |-> decode_time, detection_time_ms |-> detection_time,
              total_time_ms |-> total_time, image_width |-> image.width,
              image_height |-> image.height, pool_acquisition_time_ms |-> pool_acquisition_time]]
      [] kind = "ws_text" ->
         [success |-> TRUE,
          message |-> [tag |-> "Detected QR code(s)", n |-> Len(qrcodes)],
          count |-> Len(qrcodes),
          qrcodes |-> qrcodes,
          statistics |->
             [image_decode_time_ms |-> decode_time, detection_time_ms |-> detection_time,
              total_time_ms |-> total_time, image_width |-> image.width,
              image_height |-> image.height, pool_acquisition_time_ms |-> pool_acquisition_time]]
      [] kind = "ws_binary" ->
         [success |-> TRUE,
          message |-> [tag |-> "Detected QR code(s)", n |-> Len(qrcodes)],
          count |-> Len(qrcodes),
          qrcodes |-> qrcodes,
          statistics |->
             [image_decode_time_ms |-> decode_time, detection_time_ms |-> detection_time,
              total_time_ms |-> total_time, image_width |-> image.width,
              image_height |-> image.height, pool_acquisition_time_ms |-> pool_acquisition_time]]

OkRet(body) == [tag |-> "ok", status |-> StatusOk, cause |-> "", body |-> body]

\* The Err a pipeline returns: a StatusCode on the HTTP paths (BAD_REQUEST
\* from the request and decode stages, INTERNAL_SERVER_ERROR from the
\* detector), a String on the WebSocket paths (status 0 here).
ErrRet(kind, cause) ==
    [tag |-> "err",
     status |-> IF ~IsHttp(kind) THEN 0
                ELSE IF cause = "detector_error" THEN StatusInternalServerError
                ELSE StatusBadRequest,
     cause |-> cause,
     body |-> NoBody]

\* A plausible slip: the HTTP error rendered with a response body.
AdapterResponseWithErrorBody(kind, ret) ==
    IF IsHttp(kind)
    THEN [via |-> "http", status |-> ret.status, msg_type |-> "",
          success |-> ret.tag = "ok" /\ ret.body.success,
          message |-> ret.body.message,
          has_body |-> TRUE, body |-> ret.body]
    ELSE IF ret.tag = "ok"
    THEN [via |-> "ws", status |-> 0, msg_type |-> "detection_result",
          success |-> ret.body.success, message |-> ret.body.message,
          has_body |-> TRUE, body |-> ret.body]
    ELSE [via |-> "ws", status |-> 0, msg_type |-> "error", success |-> FALSE,
          message |-> [tag |-> IF ret.cause = "missing_field" THEN "Missing image data"
                               ELSE IF kind = "ws_binary" THEN "Binary detection failed"
                               ELSE "Detection failed",
                       n |-> 0],
          has_body |-> FALSE, body |-> NoBody]

\* What the adapter sends for the pipeline's return value: axum's rendering
\* of Result<Json<DetectionResponse>, StatusCode> on the HTTP paths, the
\* envelope of handle_websocket_request / handle_websocket_binary_request
\* (lines 638-722) on the WebSocket paths.
AdapterResponse(kind, ret) ==
    IF IsHttp(kind)
    THEN [via |-> "http", status |-> ret.status, msg_type |-> "",
          success |-> ret.tag = "ok" /\ ret.body.success,
          message |-> ret.body.message,
          has_body |-> ret.tag = "ok", body |-> ret.body]
    ELSE IF ret.tag = "ok"
    THEN [via |-> "ws", status |-> 0, msg_type |-> "detection_result",
          success |-> ret.body.success, message |-> ret.body.message,
          has_body |-> TRUE, body |-> ret.body]
    ELSE [via |-> "ws", status |-> 0, msg_type |-> "error", success |-> FALSE,
          message |-> [tag |-> IF ret.cause = "missing_field" THEN "Missing image data"
                               ELSE IF kind = "ws_binary" THEN "Binary detection failed"
                               ELSE "Detection failed",
                       n |-> 0],
          has_body |-> FALSE, body |-> NoBody]

\* --------------------------------------------------------------- the pool
\* A plausible slip: the object is read but left in the Vec.
TryPullLeavesObject(objects) ==
    IF Len(objects) = 0
    THEN [found |-> FALSE, obj |-> 0, rest |-> objects]
    ELSE [found |-> TRUE, obj |-> objects[Len(objects)], rest |-> objects]

\* Pool::try_pull: Vec::pop under the lock, taking the last object.
TryPull(objects) ==
    IF Len(objects) = 0
    THEN [found |-> FALSE, obj |-> 0, rest |-> objects]
    ELSE [found |-> TRUE, obj |-> objects[Len(objects)],
          rest |-> SubSeq(objects, 1, Len(objects) - 1)]

\* Pool::attach, called by the guard's Drop: Vec::push under the lock.
Attach(objects, d) == Append(objects, d)

\* ------------------------------------------------------------------- init
EnvOf(i, m) == [POOL_INITIAL_SIZE |-> i, POOL_MAX_SIZE |-> m]

InitRest ==
    /\ mainPc = "start"
    /\ mainConfig = NoConfig
    /\ once = "incomplete"
    /\ runner = -1
    /\ building = <<>>
    /\ warmTarget = 0
    /\ POOL = NoPool
    /\ constructed = 0
    /\ warmups = 0
    /\ now = 0
    /\ req = [r \in Reqs |-> IdleReq]
    /\ peak = [acquiring |-> 0, holding |-> 0]

\* No call of detect_qr_codes, no WebSocket connection and no multipart body
\* is being followed.
NothingDetached ==
    /\ geom = NoGeom
    /\ ws = NoSession
    /\ upload = NoUpload

Init ==
    /\ env \in {EnvOf(Digits(i), Digits(m)) : i \in 1..MaxWarm, m \in 1..MaxCap}
    /\ InitRest
    /\ NothingDetached

\* ------------------------------------------------------------------- main
\* main() reads the configuration for its log lines (line 888).
MainReadConfig ==
    /\ mainPc = "start"
    /\ mainPc' = "configured"
    /\ mainConfig' = get_pool_config(env)
    /\ UNCHANGED <<Detached, env, once, runner, building, warmTarget, POOL, constructed,
                   warmups, now, req>>

\* check_model_files()? (line 911): main returns Err when a file is missing.
MainCheckModels ==
    /\ mainPc = "configured"
    /\ \E found \in BOOLEAN : mainPc' = IF found THEN "get_pool" ELSE "exited"
    /\ UNCHANGED <<Detached, env, mainConfig, once, runner, building, warmTarget, POOL,
                   constructed, warmups, now, req>>

\* bind and serve (lines 950-951): requests are accepted from here on.
MainServe ==
    /\ mainPc = "pool_ready"
    /\ \E bound \in BOOLEAN : mainPc' = IF bound THEN "serving" ELSE "exited"
    /\ UNCHANGED <<Detached, env, mainConfig, once, runner, building, warmTarget, POOL,
                   constructed, warmups, now, req>>

\* ------------------------------------------------------ get_detector_pool
CallerPc(c) == IF c = Main THEN mainPc ELSE req[c].pc

SetCallerPc(c, p) ==
    IF c = Main
    THEN mainPc' = p /\ req' = req
    ELSE mainPc' = mainPc /\ req' = [req EXCEPT ![c].pc = p]

\* Where a caller continues once get_detector_pool has returned the pool.
AfterPool(c) == IF c = Main THEN "pool_ready" ELSE "pull"

\* A panicking caller: main ends the process, a request task is torn down.
Panicked(c) ==
    IF c = Main
    THEN mainPc' = "panicked" /\ req' = req
    ELSE mainPc' = mainPc /\ req' = [req EXCEPT ![c] = [IdleReq EXCEPT !.pc = "panicked"]]

\* A plausible slip: `if POOL.is_none()` in place of the Once, so that every
\* caller arriving before POOL is set starts a warm-up of its own.
OnceBeginUnsynchronized(c) ==
    /\ CallerPc(c) = "get_pool"
    /\ ~POOL.some
    /\ once \in {"incomplete", "running"}
    /\ once' = "running"
    /\ runner' = c
    /\ warmups' = warmups + 1
    /\ warmTarget' = get_pool_config(env).initial_size
    /\ building' = <<>>
    /\ SetCallerPc(c, "warming")
    /\ UNCHANGED <<Detached, env, mainConfig, POOL, constructed, now>>

\* POOL_INIT.call_once (line 258): the first caller starts the closure, which
\* reads the configuration (line 259) and enters Pool::new.
OnceBegin(c) ==
    /\ CallerPc(c) = "get_pool"
    /\ once = "incomplete"
    /\ once' = "running"
    /\ runner' = c
    /\ warmups' = warmups + 1
    /\ warmTarget' = get_pool_config(env).initial_size
    /\ building' = <<>>
    /\ SetCallerPc(c, "warming")
    /\ UNCHANGED <<Detached, env, mainConfig, POOL, constructed, now>>

\* One init() call of Pool::new (lines 262-270): QRCodeDetector::new() gives a
\* detector, or fails and the closure panics, which poisons POOL_INIT and
\* drops the detectors built so far.
WarmupConstruct(c) ==
    /\ once = "running"
    /\ runner = c
    /\ Len(building) < warmTarget
    /\ \E built \in BOOLEAN :
         IF built
         THEN /\ constructed' = constructed + 1
              /\ building' = Append(building, constructed + 1)
              /\ UNCHANGED <<once, runner, mainPc, req>>
         ELSE /\ once' = "poisoned"
              /\ runner' = -1
              /\ building' = <<>>
              /\ Panicked(c)
              /\ UNCHANGED constructed
    /\ UNCHANGED <<Detached, env, mainConfig, warmTarget, POOL, warmups, now>>

\* Pool::new returns, POOL = Some(pool) (line 272), call_once completes and
\* the caller gets POOL.as_ref().unwrap() (line 275).
OnceFinish(c) ==
    /\ once = "running"
    /\ runner = c
    /\ Len(building) = warmTarget
    /\ POOL' = [some |-> TRUE, objects |-> building]
    /\ building' = <<>>
    /\ once' = "complete"
    /\ runner' = -1
    /\ SetCallerPc(c, AfterPool(c))
    /\ UNCHANGED <<Detached, env, mainConfig, warmTarget, constructed, warmups, now>>

\* call_once on a completed Once returns at once; a caller that finds the
\* closure running blocks until then (no step is enabled for it).
GetPoolReady(c) ==
    /\ CallerPc(c) = "get_pool"
    /\ once = "complete"
    /\ SetCallerPc(c, AfterPool(c))
    /\ UNCHANGED <<Detached, env, mainConfig, once, runner, building, warmTarget, POOL,
                   constructed, warmups, now>>

\* call_once on a poisoned Once panics.
GetPoolPoisoned(c) ==
    /\ CallerPc(c) = "get_pool"
    /\ once = "poisoned"
    /\ Panicked(c)
    /\ UNCHANGED <<Detached, env, mainConfig, once, runner, building, warmTarget, POOL,
                   constructed, warmups, now>>

\* ------------------------------------------------------------ the pipeline
\* The four pipelines (detect_from_file 339-433, detect_from_base64 435-526,
\* detect_qr_from_base64 725-799, detect_qr_from_binary 802-872) are the same
\* sequence; `kind` selects the adapter's part.  Two clock reads with nothing
\* but a log line between them are taken in one step.
PoolShared == <<env, mainPc, mainConfig, once, runner, building, warmTarget>>

\* A request arrives and its handler starts: start_time (lines 340, 438, 726, 803).
\* Tasks are interchangeable, so a new request takes the lowest free slot.
Start(r) ==
    /\ mainPc = "serving"
    /\ req[r].pc = "idle"
    /\ \A q \in Reqs : q < r => req[q].pc # "idle"
    /\ \E kind \in Kinds :
         req' = [req EXCEPT ![r] = [IdleReq EXCEPT !.pc = "received", !.kind = kind,
                                                   !.start_time = now]]
    /\ UNCHANGED <<Detached, PoolShared, POOL, constructed, warmups, now>>

\* The adapter obtains the payload to decode, or rejects the request; then
\* decode_start (lines 349, 442, 729, 806).
Extract(r) ==
    /\ req[r].pc = "received"
    /\ \E payload \in Payloads[req[r].kind] :
         LET got == ExtractBuffer(req[r].kind, payload) IN
         req' = [req EXCEPT ![r] =
                    IF got.ok
                    THEN [@ EXCEPT !.pc = "decode", !.data = got.data, !.decode_start = now]
                    ELSE [@ EXCEPT !.pc = "returned", !.start_time = 0,
                                   !.outcome = "missing_field",
                                   !.ret = ErrRet(req[r].kind, "missing_field")]]
    /\ UNCHANGED <<Detached, PoolShared, POOL, constructed, warmups, now>>

\* A plausible slip: text that is no base64 decoded to no bytes at all, and so
\* taken for an image that is not one.
DecodeStageBadBase64AsEmpty(kind, data) ==
    LET bytes == IF data.encoding = "base64" THEN Base64Decode(data.buf).buf ELSE data.buf
    IN IF data.encoding = "base64" /\ ~Base64Decode(data.buf).ok THEN [next |-> "soft", cause |-> "", image |-> NoImage]
       ELSE IF ~DecodeImage(bytes).ok THEN [next |-> "returned", cause |-> "decode_error", image |-> NoImage]
       ELSE IF DecodeImage(bytes).image.empty THEN [next |-> "soft", cause |-> "", image |-> NoImage]
       ELSE [next |-> "acquire", cause |-> "", image |-> DecodeImage(bytes).image]

\* A plausible slip: the binary path answers a frame without bytes with the
\* soft result, where the other paths return the codec's error.
DecodeStageBinaryLenient(kind, data) ==
    LET bytes == IF data.encoding = "base64" THEN Base64Decode(data.buf).buf ELSE data.buf
    IN IF data.encoding = "base64" /\ ~Base64Decode(data.buf).ok
       THEN [next |-> "returned", cause |-> "bad_base64", image |-> NoImage]
       ELSE IF ~DecodeImage(bytes).ok
       THEN IF kind = "ws_binary" THEN [next |-> "soft", cause |-> "", image |-> NoImage]
            ELSE [next |-> "returned", cause |-> "decode_error", image |-> NoImage]
       ELSE IF DecodeImage(bytes).image.empty THEN [next |-> "soft", cause |-> "", image |-> NoImage]
       ELSE [next |-> "acquire", cause |-> "", image |-> DecodeImage(bytes).image]

\* A plausible slip: the image.empty() test left out, the empty image handed
\* on to the acquire stage.
DecodeStageEmptyToDetector(kind, data) ==
    LET bytes == IF data.encoding = "base64" THEN Base64Decode(data.buf).buf ELSE data.buf
    IN IF data.encoding = "base64" /\ ~Base64Decode(data.buf).ok
       THEN [next |-> "returned", cause |-> "bad_base64", image |-> NoImage]
       ELSE IF ~DecodeImage(bytes).ok THEN [next |-> "returned", cause |-> "decode_error", image |-> NoImage]
       ELSE [next |-> "acquire", cause |-> "", image |-> DecodeImage(bytes).image]

\* The decode stage of each pipeline: where it goes next, with the cause when
\* it returns Err, or with the image.  detect_from_file (lines 352-365) and
\* detect_qr_from_binary (808-817) hand the request's bytes to Mat::from_slice
\* and imdecode; detect_from_base64 (445-464) and detect_qr_from_base64
\* (731-744) decode the text first.
DecodeStage(kind, data) ==
    CASE kind = "file" ->
           IF ~DecodeImage(data.buf).ok THEN [next |-> "returned", cause |-> "decode_error", image |-> NoImage]
           ELSE IF DecodeImage(data.buf).image.empty THEN [next |-> "soft", cause |-> "", image |-> NoImage]
           ELSE [next |-> "acquire", cause |-> "", image |-> DecodeImage(data.buf).image]
      [] kind = "base64" ->
           IF ~Base64Decode(data.buf).ok THEN [next |-> "returned", cause |-> "bad_base64", image |-> NoImage]
           ELSE IF ~DecodeImage(Base64Decode(data.buf).buf).ok
           THEN [next |-> "returned", cause |-> "decode_error", image |-> NoImage]
           ELSE IF DecodeImage(Base64Decode(data.buf).buf).image.empty
           THEN [next |-> "soft", cause |-> "", image |-> NoImage]
           ELSE [next |-> "acquire", cause |-> "",
                 image |-> DecodeImage(Base64Decode(data.buf).buf).image]
      [] kind = "ws_text" ->
           IF ~Base64Decode(data.buf).ok THEN [next |-> "returned", cause |-> "bad_base64", image |-> NoImage]
           ELSE IF ~DecodeImage(Base64Decode(data.buf).buf).ok
           THEN [next |-> "returned", cause |-> "decode_error", image |-> NoImage]
           ELSE IF DecodeImage(Base64Decode(data.buf).buf).image.empty
           THEN [next |-> "soft", cause |-> "", image |-> NoImage]
           ELSE [next |-> "acquire", cause |-> "",
                 image |-> DecodeImage(Base64Decode(data.buf).buf).image]
      [] kind = "ws_binary" ->
           IF ~DecodeImage(data.buf).ok THEN [next |-> "returned", cause |-> "decode_error", image |-> NoImage]
           ELSE IF DecodeImage(data.buf).image.empty THEN [next |-> "soft", cause |-> "", image |-> NoImage]
           ELSE [next |-> "acquire", cause |-> "", image |-> DecodeImage(data.buf).image]

\* base64 decoding where the payload is text, Mat::from_slice, imdecode, then
\* decode_time (lines 363, 462, 742, 815).
Decode(r) ==
    /\ req[r].pc = "decode"
    /\ \E st \in {DecodeStage(req[r].kind, req[r].data)} :
       req' = [req EXCEPT ![r] =
                  IF st.next = "returned"
                  THEN [@ EXCEPT !.pc = "returned", !.data = NoData, !.start_time = 0,
                                 !.decode_start = 0, !.outcome = st.cause,
                                 !.ret = ErrRet(req[r].kind, st.cause)]
                  ELSE [@ EXCEPT !.pc = st.next, !.data = NoData, !.image = st.image,
                                 !.outcome = IF st.next = "soft" THEN "empty_image" ELSE "",
                                 !.decode_time = Millis[now - req[r].decode_start],
                                 !.decode_start = 0]]
    /\ UNCHANGED <<Detached, PoolShared, POOL, constructed, warmups, now>>

\* image.empty(): the soft result, with total_time read now (lines 365-381).
ReturnSoft(r) ==
    /\ req[r].pc = "soft"
    /\ req' = [req EXCEPT ![r] =
                  [@ EXCEPT !.pc = "returned", !.start_time = 0, !.decode_time = F64Zero,
                            !.ret = OkRet(SoftResponse(req[r].kind, req[r].decode_time,
                                                       Millis[now - req[r].start_time]))]]
    /\ UNCHANGED <<Detached, PoolShared, POOL, constructed, warmups, now>>

\* pool_start, then the call of get_detector_pool (lines 387-388).
BeginAcquire(r) ==
    /\ req[r].pc = "acquire"
    /\ req' = [req EXCEPT ![r] = [@ EXCEPT !.pc = "get_pool", !.pool_start = now]]
    /\ UNCHANGED <<Detached, PoolShared, POOL, constructed, warmups, now>>

\* The request's fields once it holds detector d: pool_acquisition_time and
\* detection_start are read next (lines 398 and 401).
Holding(q, d, t) ==
    [q EXCEPT !.pc = "detect", !.held = d,
              !.pool_acquisition_time = Millis[t - q.pool_start], !.pool_start = 0,
              !.detection_start = t]

\* The history after a step of pool.pull: the requests now inside pull (its
\* try_pull done, by a hit or a miss) up to the drop of their guard, and the
\* requests now holding a detector.
PeakWith(p, rq) ==
    [acquiring |-> Max2(p.acquiring,
                        Cardinality({r \in Reqs : rq[r].pc \in {"construct", "detect", "drop"}})),
     holding |-> Max2(p.holding, Cardinality({r \in Reqs : rq[r].held # 0}))]

\* A plausible slip: the pool passed by, a detector built for every request.
PullConstructsAfresh(r) ==
    /\ req[r].pc = "pull"
    /\ POOL.some
    /\ POOL' = POOL
    /\ req' = [req EXCEPT ![r].pc = "construct"]
    /\ peak' = PeakWith(peak, req')
    /\ UNCHANGED <<geom, ws, upload, PoolShared, constructed, warmups, now>>

\* A plausible slip: the detector handed out but left in the Vec.
PullLeavesInPool(r) ==
    /\ req[r].pc = "pull"
    /\ POOL.some
    /\ LET got == TryPull(POOL.objects) IN
       IF got.found
       THEN /\ POOL' = POOL
            /\ req' = [req EXCEPT ![r] = Holding(req[r], got.obj, now)]
       ELSE /\ POOL' = POOL
            /\ req' = [req EXCEPT ![r].pc = "construct"]
    /\ peak' = PeakWith(peak, req')
    /\ UNCHANGED <<geom, ws, upload, PoolShared, constructed, warmups, now>>

\* pool.pull: try_pull under the pool's lock (line 389); on an empty Vec the
\* lock is released and the fallback closure runs next.
Pull(r) ==
    /\ req[r].pc = "pull"
    /\ POOL.some
    /\ LET got == TryPull(POOL.objects) IN
       IF got.found
       THEN /\ POOL' = [POOL EXCEPT !.objects = got.rest]
            /\ req' = [req EXCEPT ![r] = Holding(req[r], got.obj, now)]
       ELSE /\ POOL' = POOL
            /\ req' = [req EXCEPT ![r].pc = "construct"]
    /\ peak' = PeakWith(peak, req')
    /\ UNCHANGED <<geom, ws, upload, PoolShared, constructed, warmups, now>>

\* The fallback closure (lines 389-397): a fresh detector, or a panic.
Construct(r) ==
    /\ req[r].pc = "construct"
    /\ \E built \in BOOLEAN :
         IF built
         THEN /\ constructed' = constructed + 1
              /\ req' = [req EXCEPT ![r] = Holding(req[r], constructed + 1, now)]
         ELSE /\ constructed' = constructed
              /\ req' = [req EXCEPT ![r] = [IdleReq EXCEPT !.pc = "panicked"]]
    /\ peak' = PeakWith(peak, req')
    /\ UNCHANGED <<geom, ws, upload, PoolShared, POOL, warmups, now>>

\* A plausible slip: a detector error swallowed into a success=false result.
DetectStageSwallowsError(q, raw, t) ==
    IF detect_qr_codes(raw).ok
    THEN OkRet(SuccessResponse(q.kind, detect_qr_codes(raw).qrcodes, q.decode_time,
                               q.pool_acquisition_time, Millis[t - q.detection_start],
                               Millis[t - q.start_time], q.image))
    ELSE OkRet(SoftResponse(q.kind, q.decode_time, Millis[t - q.start_time]))

\* The return value of each pipeline after detector.detect_qr_codes: Err, or
\* the success response with detection_time and total_time read at t and
\* converted to milliseconds.  detect_from_file (lines 402-428),
\* detect_from_base64 (501-525), detect_qr_from_base64 (779-798),
\* detect_qr_from_binary (852-871).
DetectStage(q, raw, t) ==
    CASE q.kind = "file" ->
           IF detect_qr_codes(raw).ok
           THEN OkRet(SuccessResponse("file", detect_qr_codes(raw).qrcodes, q.decode_time,
                                      q.pool_acquisition_time,
                                      Millis[t - q.detection_start],
                                      Millis[t - q.start_time], q.image))
           ELSE ErrRet("file", "detector_error")
      [] q.kind = "base64" ->
           IF detect_qr_codes(raw).ok
           THEN OkRet(SuccessResponse("base64", detect_qr_codes(raw).qrcodes, q.decode_time,
                                      q.pool_acquisition_time,
                                      Millis[t - q.detection_start],
                                      Millis[t - q.start_time], q.image))
           ELSE ErrRet("base64", "detector_error")
      [] q.kind = "ws_text" ->
           IF detect_qr_codes(raw).ok
           THEN OkRet(SuccessResponse("ws_text", detect_qr_codes(raw).qrcodes, q.decode_time,
                                      q.pool_acquisition_time,
                                      Millis[t - q.detection_start],
                                      Millis[t - q.start_time], q.image))
           ELSE ErrRet("ws_text", "detector_error")
      [] q.kind = "ws_binary" ->
           IF detect_qr_codes(raw).ok
           THEN OkRet(SuccessResponse("ws_binary", detect_qr_codes(raw).qrcodes, q.decode_time,
                                      q.pool_acquisition_time,
                                      Millis[t - q.detection_start],
                                      Millis[t - q.start_time], q.image))
           ELSE ErrRet("ws_binary", "detector_error")

\* The detector runs on the image; the guard is still alive afterwards.
Detect(r) ==
    /\ req[r].pc = "detect"
    /\ \E raw \in RawOutputs :
         req' = [req EXCEPT ![r] =
                    [@ EXCEPT !.pc = "drop", !.ret = DetectStage(req[r], raw, now),
                              !.outcome = IF raw.ok THEN "detected" ELSE "detector_error",
                              !.image = NoImage, !.start_time = 0, !.decode_time = F64Zero,
                              !.pool_acquisition_time = F64Zero, !.detection_start = 0]]
    /\ UNCHANGED <<Detached, PoolShared, POOL, constructed, warmups, now>>

\* A plausible slip: the detector returned to the pool by hand on the success
\* path only, so that `?` leaves with it.
ReleaseOnSuccessOnly(r) ==
    /\ req[r].pc = "drop"
    /\ POOL' = IF req[r].ret.tag = "ok"
               THEN [POOL EXCEPT !.objects = Attach(POOL.objects, req[r].held)]
               ELSE POOL
    /\ req' = [req EXCEPT ![r] = [@ EXCEPT !.pc = "returned", !.held = 0]]
    /\ UNCHANGED <<Detached, PoolShared, constructed, warmups, now>>

\* A plausible slip: a detector built by the fallback is discarded when its
\* guard is dropped, only the warmed ones go back to the Vec.
ReleaseDiscardsFallback(r) ==
    /\ req[r].pc = "drop"
    /\ POOL' = IF req[r].held <= get_pool_config(env).initial_size
               THEN [POOL EXCEPT !.objects = Attach(POOL.objects, req[r].held)]
               ELSE POOL
    /\ req' = [req EXCEPT ![r] = [@ EXCEPT !.pc = "returned", !.held = 0]]
    /\ UNCHANGED <<Detached, PoolShared, constructed, warmups, now>>

\* The function's scope ends, on `?` as on return: the guard is dropped and
\* its detector attached to the pool; then the caller has the return value.
Release(r) ==
    /\ req[r].pc = "drop"
    /\ POOL' = [POOL EXCEPT !.objects = Attach(POOL.objects, req[r].held)]
    /\ req' = [req EXCEPT ![r] = [@ EXCEPT !.pc = "returned", !.held = 0]]
    /\ UNCHANGED <<Detached, PoolShared, constructed, warmups, now>>

\* The adapter sends the response.
Respond(r) ==
    /\ req[r].pc = "returned"
    /\ req' = [req EXCEPT ![r] =
                  [@ EXCEPT !.pc = "responded",
                            !.resp = AdapterResponse(req[r].kind, req[r].ret)]]
    /\ UNCHANGED <<Detached, PoolShared, POOL, constructed, warmups, now>>

\* The task is gone (response delivered, or torn down by a panic); the slot
\* stands for a later request.
Reset(r) ==
    /\ req[r].pc \in {"responded", "panicked"}
    /\ req' = [req EXCEPT ![r] = IdleReq]
    /\ UNCHANGED <<Detached, PoolShared, POOL, constructed, warmups, now>>

\* A plausible slip: an await inside the stretch that holds the detector, so
\* that the task can be dropped at any step of the pipeline.
SuspendedAnywhere(q) == q.pc \notin {"idle", "panicked"}

\* The task is at an await: an upload reading its fields (lines 342, 346), a
\* JSON request reading its body (line 436), or any path whose response is
\* being written (lines 551, 569, 594, 608).  The pipeline between them has
\* no await.
Suspended(q) ==
    \/ q.pc = "received" /\ q.kind \in {"file", "base64"}
    \/ q.pc = "responded"

\* The task is dropped at an await (the client went away, the response could
\* not be written): its locals are dropped, and a detector among them goes
\* back to the pool.  The free slot keeps "cancelled" as its outcome until
\* the next request takes it.
Cancel(r) ==
    /\ Suspended(req[r])
    /\ POOL' = IF req[r].held # 0
               THEN [POOL EXCEPT !.objects = Attach(POOL.objects, req[r].held)]
               ELSE POOL
    /\ req' = [req EXCEPT ![r] = [IdleReq EXCEPT !.outcome = "cancelled"]]
    /\ UNCHANGED <<Detached, PoolShared, constructed, warmups, now>>

\* Time passes: the clock shows the next nanosecond.
Tick ==
    /\ now < MaxClock
    /\ now' = now + 1
    /\ UNCHANGED <<Detached, PoolShared, POOL, constructed, warmups, req>>

\* -------------------------------------------------- the WebSocket session
\* handle_websocket (lines 534-635) for one connection.  `log` lists the
\* inbound messages in the order receiver.next() returned them, `sent` the
\* frames sender.send() delivered; a frame's `re` is the position in `log`
\* of the message it answers and `outcome` the pipeline outcome behind it.
\* Inbound messages: "text_detect", "text_close", "text_unknown" (a request
\* of another type), "text_invalid" (no WebSocketRequest), "binary", "ping",
\* "pong", "close_frame", "stream_error".
MaxMessages == 3     \* inbound messages followed on the connection

\* WebSocketResponse as a text frame.
Envelope(msg_type, success, message) ==
    [NoFrame EXCEPT !.frame = "text", !.msg_type = msg_type, !.success = success,
                    !.message = message]

\* The welcome message (lines 540-548).
WelcomeMsg == Envelope("connected", TRUE, "WebSocket connected successfully")

\* A plausible slip: text that is no request falls into the arm for an
\* unknown type.
TextReplyParseErrorAsUnknown(class) ==
    IF class = "text_close" THEN Envelope("close", TRUE, "Connection closing")
    ELSE Envelope("error", FALSE, "Unknown message type")

\* What a text message is answered with when no detection is involved: the
\* "close" and the unknown-type arms of handle_websocket_request (lines
\* 675-696) and the parse-error arm of handle_websocket (lines 581-591).
TextReply(class) ==
    IF class = "text_close" THEN Envelope("close", TRUE, "Connection closing")
    ELSE IF class = "text_unknown" THEN Envelope("error", FALSE, "Unknown message type")
    ELSE Envelope("error", FALSE, "Invalid request format")

\* A plausible slip: whatever the detection returned is sent as a result.
DetectionReplyAsResult(q) ==
    [NoFrame EXCEPT !.frame = "text", !.msg_type = "detection_result",
                    !.success = q.resp.success, !.message = q.resp.message.tag,
                    !.has_result = q.resp.has_body, !.outcome = q.outcome]

\* The envelope for what the detection returned (lines 643-673, 702-721), as
\* Respond left it in the request.
DetectionReply(q) ==
    [NoFrame EXCEPT !.frame = "text", !.msg_type = q.resp.msg_type,
                    !.success = q.resp.success, !.message = q.resp.message.tag,
                    !.has_result = q.resp.has_body, !.outcome = q.outcome]

\* A plausible slip: the loop left after any envelope that is no result.
EndsLoopOnError(reply) == reply.msg_type \in {"close", "error"}

\* A plausible slip: the close acknowledgment sent, the loop not left.
EndsLoopNever(reply) == FALSE

\* response.msg_type == "close" (line 576).
EndsLoop(reply) == reply.msg_type = "close"

\* A plausible slip: the next message taken while one is still being handled.
CanReadAhead(session) ==
    session.pc \in {"reading", "handling", "replying"} /\ Len(session.log) < MaxMessages

\* receiver.next() is awaited at the head of the loop only (line 558).
CanRead(session) == session.pc = "reading" /\ Len(session.log) < MaxMessages

Server == <<env, mainPc, mainConfig, once, runner, building, warmTarget, POOL,
            constructed, warmups, now, peak>>

\* The upgrade completes and handle_websocket starts (lines 529-537).
WsAccept ==
    /\ mainPc = "serving"
    /\ ws.pc = "none"
    /\ ws' = [NoSession EXCEPT !.pc = "connecting"]
    /\ UNCHANGED <<Server, req, geom, upload>>

\* A plausible slip: the result of sending the welcome message dropped, the
\* loop entered whether or not it was delivered.
WsWelcomeThenReadAnyway ==
    /\ ws.pc = "connecting"
    /\ \E delivered \in BOOLEAN :
         ws' = IF delivered
               THEN [ws EXCEPT !.pc = "reading", !.sent = <<WelcomeMsg>>]
               ELSE [ws EXCEPT !.pc = "reading"]
    /\ UNCHANGED <<Server, req, geom, upload>>

\* The welcome message is sent; the handler returns if that fails (550-555).
WsWelcome ==
    /\ ws.pc = "connecting"
    /\ \E delivered \in BOOLEAN :
         ws' = IF delivered
               THEN [ws EXCEPT !.pc = "reading", !.sent = <<WelcomeMsg>>]
               ELSE [ws EXCEPT !.pc = "closed", !.end = "send_failed"]
    /\ UNCHANGED <<Server, req, geom, upload>>

\* The pipeline of a detect request or a binary frame starts in the handler's
\* own task.
Detecting(kind) == [IdleReq EXCEPT !.pc = "received", !.kind = kind, !.start_time = now]

\* A text message (lines 560-599): a detect request goes to the pipeline, any
\* other text has its reply at once.
WsReadText ==
    /\ CanRead(ws)
    /\ \E class \in {"text_detect", "text_close", "text_unknown", "text_invalid"} :
         IF class = "text_detect"
         THEN /\ ws' = [ws EXCEPT !.pc = "handling", !.log = Append(@, class)]
              /\ req' = [req EXCEPT ![FirstReq] = Detecting("ws_text")]
         ELSE /\ ws' = [ws EXCEPT !.pc = "replying", !.log = Append(@, class),
                                  !.reply = TextReply(class)]
              /\ req' = req
    /\ UNCHANGED <<Server, geom, upload>>

\* A binary message (lines 601-605).
WsReadBinary ==
    /\ CanRead(ws)
    /\ ws' = [ws EXCEPT !.pc = "handling", !.log = Append(@, "binary")]
    /\ req' = [req EXCEPT ![FirstReq] = Detecting("ws_binary")]
    /\ UNCHANGED <<Server, geom, upload>>

\* A plausible slip: the pong sent without the ping's bytes.
WsReadPingBarePong ==
    /\ CanRead(ws)
    /\ \E data \in {<<>>, <<0>>} :
         ws' = [ws EXCEPT !.pc = "replying", !.log = Append(@, "ping"),
                          !.pings = Append(@, [at |-> Len(ws.log) + 1, data |-> data]),
                          !.reply = [NoFrame EXCEPT !.frame = "pong"]]
    /\ UNCHANGED <<Server, req, geom, upload>>

\* A ping is answered with a pong that carries the ping's bytes (lines
\* 618-623); pings keeps what each ping carried.
WsReadPing ==
    /\ CanRead(ws)
    /\ \E data \in {<<>>, <<0>>} :
         ws' = [ws EXCEPT !.pc = "replying", !.log = Append(@, "ping"),
                          !.pings = Append(@, [at |-> Len(ws.log) + 1, data |-> data]),
                          !.reply = [NoFrame EXCEPT !.frame = "pong", !.payload = data]]
    /\ UNCHANGED <<Server, req, geom, upload>>

\* A pong is logged and nothing else (lines 624-626).
WsReadPong ==
    /\ CanRead(ws)
    /\ ws' = [ws EXCEPT !.log = Append(@, "pong")]
    /\ UNCHANGED <<Server, req, geom, upload>>

\* A close frame or a receive error ends the loop (lines 614-617, 627-630).
WsReadClose ==
    /\ CanRead(ws)
    /\ \E class \in {"close_frame", "stream_error"} :
         ws' = [ws EXCEPT !.pc = "closed", !.log = Append(@, class), !.end = class]
    /\ UNCHANGED <<Server, req, geom, upload>>

\* receiver.next() returns None (line 558).
WsStreamEnd ==
    /\ ws.pc = "reading"
    /\ ws' = [ws EXCEPT !.pc = "closed", !.end = "stream_end"]
    /\ UNCHANGED <<Server, req, geom, upload>>

\* handle_websocket_request or handle_websocket_binary_request returns its
\* envelope (lines 566, 605).
WsHandled ==
    /\ ws.pc = "handling"
    /\ req[FirstReq].pc = "responded"
    /\ ws' = [ws EXCEPT !.pc = "replying", !.reply = DetectionReply(req[FirstReq])]
    /\ req' = [req EXCEPT ![FirstReq] = IdleReq]
    /\ UNCHANGED <<Server, geom, upload>>

\* sender.send(...).await (lines 569-579, 594-596, 608-611, 620-622): a failed
\* send leaves the loop, and so does a delivered close acknowledgment.
WsSend ==
    /\ ws.pc = "replying"
    /\ \E delivered \in BOOLEAN :
         ws' = IF ~delivered
               THEN [ws EXCEPT !.pc = "closed", !.reply = NoFrame, !.end = "send_failed"]
               ELSE [ws EXCEPT !.pc = IF EndsLoop(ws.reply) THEN "closed" ELSE "reading",
                               !.end = IF EndsLoop(ws.reply) THEN "close_request" ELSE "",
                               !.reply = NoFrame,
                               !.sent = Append(@, [ws.reply EXCEPT !.re = Len(ws.log)])]
    /\ UNCHANGED <<Server, req, geom, upload>>

\* ---------------------------------------------------------- specification
MainStep ==
    \/ MainReadConfig
    \/ MainCheckModels
    \/ OnceBegin(Main)
    \/ WarmupConstruct(Main)
    \/ OnceFinish(Main)
    \/ MainServe

\* The server under concurrent requests.  The clock stands still here; the
\* timing of a request is the subject of SeqSpec.
Next ==
    \/ MainStep
    \/ \E r \in Reqs :
         \/ Start(r)
         \/ Extract(r)
         \/ Decode(r)
         \/ ReturnSoft(r)
         \/ BeginAcquire(r)
         \/ GetPoolReady(r)
         \/ Pull(r)
         \/ Construct(r)
         \/ Detect(r)
         \/ Release(r)
         \/ Respond(r)
         \/ Reset(r)

Spec == Init /\ [][Next]_vars

\* Spec with tasks that can be dropped at their awaits.
CancelSpec == Init /\ [][Next \/ \E r \in Reqs : Cancel(r)]_vars

\* The server handling one request after another, with the clock running.
\* A lone request always finds a detector in the pool, so the fallback
\* closure has no step here.

SeqSpec ==
    Init /\ [][
        \/ MainStep
        \/ Tick
        \/ Start(FirstReq)
        \/ Extract(FirstReq)
        \/ Decode(FirstReq)
        \/ ReturnSoft(FirstReq)
        \/ BeginAcquire(FirstReq)
        \/ GetPoolReady(FirstReq)
        \/ Pull(FirstReq)
        \/ Detect(FirstReq)
        \/ Release(FirstReq)
        \/ Respond(FirstReq)
        \/ Reset(FirstReq)
    ]_vars

\* Spec with the scheduling the runtime gives: a request task that can take a
\* step without waiting for its peer is not suspended for ever.  A task at an
\* await on the peer (an upload reading its fields, a JSON request reading
\* its body, a response being written) stays there as long as the peer is
\* silent, so no progress is asserted for it; whether a new request arrives
\* is left to the clients as well.
RequestStep(r) ==
    \/ ~Suspended(req[r]) /\ Extract(r)
    \/ Decode(r)
    \/ ReturnSoft(r)
    \/ BeginAcquire(r)
    \/ GetPoolReady(r)
    \/ Pull(r)
    \/ Construct(r)
    \/ Detect(r)
    \/ Release(r)
    \/ Respond(r)
    \/ ~Suspended(req[r]) /\ Reset(r)

FairSpec == Spec /\ \A r \in Reqs : WF_vars(RequestStep(r))

\* get_detector_pool entered by main and by every task at once, each of them
\* a first caller, and called again by whoever got the pool.
OnceInit ==
    /\ env \in {EnvOf(Digits(i), Digits(m)) : i \in 1..MaxWarm, m \in 1..MaxCap}
    /\ mainPc = "get_pool"
    /\ mainConfig = NoConfig
    /\ once = "incomplete"
    /\ runner = -1
    /\ building = <<>>
    /\ warmTarget = 0
    /\ POOL = NoPool
    /\ constructed = 0
    /\ warmups = 0
    /\ now = 0
    /\ req = [r \in Reqs |-> [IdleReq EXCEPT !.pc = "get_pool"]]
    /\ peak = [acquiring |-> 0, holding |-> 0]
    /\ NothingDetached

CallAgain(c) ==
    /\ CallerPc(c) = AfterPool(c)
    /\ SetCallerPc(c, "get_pool")
    /\ UNCHANGED <<Detached, env, mainConfig, once, runner, building, warmTarget, POOL,
                   constructed, warmups, now>>

OnceSpec ==
    OnceInit /\ [][
        \E c \in Callers :
            \/ OnceBegin(c)
            \/ WarmupConstruct(c)
            \/ OnceFinish(c)
            \/ GetPoolReady(c)
            \/ GetPoolPoisoned(c)
            \/ CallAgain(c)
    ]_vars

\* get_pool_config over the values the two environment variables can take.
MaxEnvNumber == 205
EnvValues == {Absent, NotANumber, Overflowing} \cup {Digits(n) : n \in 0..MaxEnvNumber}

ConfigInit ==
    /\ env \in {EnvOf(i, m) : i \in EnvValues, m \in EnvValues}
    /\ InitRest
    /\ NothingDetached

ConfigSpec == ConfigInit /\ [][MainReadConfig]_vars

\* One WebSocket connection on the running server.
WsInit ==
    /\ env = EnvOf(Digits(1), Digits(1))
    /\ InitRest
    /\ NothingDetached

WsSpec ==
    WsInit /\ [][
        \/ MainStep
        \/ WsAccept
        \/ WsWelcome
        \/ WsReadText
        \/ WsReadBinary
        \/ WsReadPing
        \/ WsReadPong
        \/ WsReadClose
        \/ WsStreamEnd
        \/ Extract(FirstReq)
        \/ Decode(FirstReq)
        \/ ReturnSoft(FirstReq)
        \/ BeginAcquire(FirstReq)
        \/ GetPoolReady(FirstReq)
        \/ Pull(FirstReq)
        \/ Detect(FirstReq)
        \/ Release(FirstReq)
        \/ Respond(FirstReq)
        \/ WsHandled
        \/ WsSend
    ]_vars

\* Two requests of different ingress kinds that carry the same bytes, as
\* they are or as the base64 text of them, both past their adapter, on the
\* running server.
PairInit ==
    /\ env \in {EnvOf(Digits(i), Digits(m)) : i \in 1..MaxWarm, m \in 1..MaxCap}
    /\ mainPc = "serving"
    /\ mainConfig = get_pool_config(env)
    /\ once = "complete"
    /\ runner = -1
    /\ building = <<>>
    /\ warmTarget = get_pool_config(env).initial_size
    /\ POOL = [some |-> TRUE,
               objects |-> [i \in 1..get_pool_config(env).initial_size |-> i]]
    /\ constructed = get_pool_config(env).initial_size
    /\ warmups = 1
    /\ now = 0
    /\ peak = [acquiring |-> 0, holding |-> 0]
    /\ NothingDetached
    /\ \E b \in Bufs, k1, k2 \in Kinds :
         /\ k1 # k2
         /\ req = [r \in Reqs |->
                     IF r > FirstReq + 1 THEN IdleReq
                     ELSE [IdleReq EXCEPT
                             !.pc = "decode",
                             !.kind = IF r = FirstReq THEN k1 ELSE k2,
                             !.data = IF (IF r = FirstReq THEN k1 ELSE k2)
                                             \in {"file", "ws_binary"}
                                      THEN [encoding |-> "raw", buf |-> b]
                                      ELSE [encoding |-> "base64",
                                            buf |-> Base64Encode(b)]]]

PairSpec ==
    PairInit /\ [][
        \E r \in Reqs :
            \/ Decode(r)
            \/ ReturnSoft(r)
            \/ BeginAcquire(r)
            \/ GetPoolReady(r)
            \/ Pull(r)
            \/ Construct(r)
            \/ Detect(r)
            \/ Release(r)
            \/ Respond(r)
    ]_vars

\* detect_from_file's field loop on its own: one multipart body.
MaxFields == 3       \* fields in one multipart body

UploadInit ==
    /\ env = EnvOf(Absent, Absent)
    /\ InitRest
    /\ geom = NoGeom
    /\ ws = NoSession
    /\ upload \in {[NoUpload EXCEPT !.pc = "posted", !.fields = fl] :
                      fl \in SeqsUpTo(Fields, MaxFields)}

\* The loop runs to its end: the bytes handed to the decode stage, or the
\* rejection.
ScanUpload ==
    /\ upload.pc = "posted"
    /\ upload' = [upload EXCEPT
                    !.pc = "scanned",
                    !.got = ExtractBuffer("file", [fields |-> upload.fields,
                                                  has_image |-> FALSE, buf |-> NoBuf]),
                    !.stopped = StoppedAt(upload.fields, 1)]
    /\ UNCHANGED <<env, mainPc, mainConfig, once, runner, building, warmTarget, POOL,
                   constructed, warmups, now, req, geom, ws, peak>>

UploadSpec == UploadInit /\ [][ScanUpload]_vars

\* detect_qr_codes on its own: one image, one detector output, one call.
MaxBlocks == 2       \* texts, and corner Mats, in one detector output

\* Corner values in hundredths of a pixel, as the detector lays them out;
\* the first is (10,10),(290,10),(290,290),(10,290).
CornerPatterns ==
    {<<1000, 1000, 29000, 1000, 29000, 29000, 1000, 29000>>,
     <<5, 50, 95, 1234, 29995, 45, 15, 25, 12345>>}

Shapes ==
    {<<4, 2>>, <<5, 3>>, <<4, 3>>, <<8, 1>>, <<1, 8>>, <<2, 4>>, <<3, 3>>, <<9, 1>>,
     <<4, 1>>, <<3, 2>>, <<2, 2>>, <<0, 0>>}

\* The Mat of a shape filled, row by row, with a pattern repeated as needed.
MatOf(shape, pattern, is_f32) ==
    [rows |-> shape[1], cols |-> shape[2], f32 |-> is_f32,
     data |-> [k \in 1..(shape[1] * shape[2]) |->
                  F32FromHundredths(pattern[((k - 1) % Len(pattern)) + 1])]]

CornerMats ==
    {MatOf(s, p, TRUE) : s \in Shapes, p \in CornerPatterns}
    \cup {MatOf(s, CHOOSE p \in CornerPatterns : Len(p) = 8, FALSE) :
              s \in {<<4, 2>>, <<8, 1>>, <<2, 2>>}}

\* The texts of one detector output are its first k of these.
TextList == <<"a", "b", "c">>

GeomRawOutputs ==
    {NoRaw} \cup
    {[ok |-> TRUE, texts |-> t, points |-> p] :
        t \in {SubSeq(TextList, 1, k) : k \in 0..MaxBlocks},
        p \in SeqsUpTo(CornerMats, MaxBlocks)}

GeomInit ==
    /\ env = EnvOf(Absent, Absent)
    /\ InitRest
    /\ ws = NoSession
    /\ upload = NoUpload
    /\ geom \in {[NoGeom EXCEPT !.pc = "called", !.image = i, !.raw = r] :
                     i \in {[empty |-> FALSE, width |-> d[1], height |-> d[2]] :
                               d \in {<<1, 2>>, <<100, 100>>, <<300, 300>>, <<640, 480>>}},
                     r \in GeomRawOutputs}

\* The call returns.
DetectQrCodes ==
    /\ geom.pc = "called"
    /\ geom' = [geom EXCEPT !.pc = "returned",
                            !.ret = QRCodeResults(geom.image, geom.raw)]
    /\ UNCHANGED <<env, mainPc, mainConfig, once, runner, building, warmTarget, POOL,
                   constructed, warmups, now, req, ws, upload, peak>>

GeomSpec == GeomInit /\ [][DetectQrCodes]_vars

\* ------------------------------------------ the legacy variant (main_old.rs)
\* The centered square of main_old.rs (lines 110-124): the image size times
\* the f32 literal 0.8, nothing rounded.
LegacySquare(image) ==
    LET img_width == F32FromInt(image.width)
        img_height == F32FromInt(image.height)
        size == F32Mul(F32Min(img_width, img_height), [m |-> 13421773, e |-> -24])
        x_offset == F32Div(F32Sub(img_width, size), F32FromInt(2))
        y_offset == F32Div(F32Sub(img_height, size), F32FromInt(2))
    IN <<<<x_offset, y_offset>>,
         <<F32Add(x_offset, size), y_offset>>,
         <<F32Add(x_offset, size), F32Add(y_offset, size)>>,
         <<x_offset, F32Add(y_offset, size)>>>>

\* results.push of main_old.rs (lines 128-143): the text, the coordinates and
\* their enclosing box, nothing rounded.
LegacyEntry(text, coordinates) ==
    [text |-> text, path |-> "legacy", points |-> coordinates,
     bbox |-> PlainBBox(coordinates)]

\* A plausible slip: an entry pushed for every text, with or without a
\* corner Mat.
RECURSIVE LegacyCollectEmitsAll(_, _, _)
LegacyCollectEmitsAll(image, raw, i) ==
    IF i > Len(raw.texts) THEN <<>>
    ELSE <<LegacyEntry(raw.texts[i], LegacySquare(image))>>
         \o LegacyCollectEmitsAll(image, raw, i + 1)

\* The loop of the legacy detect_qr_codes from text i on (main_old.rs lines
\* 103-143): the corner Mat is fetched and not read; a text beyond the corner
\* Mats pushes nothing.
RECURSIVE LegacyCollect(_, _, _)
LegacyCollect(image, raw, i) ==
    IF i > Len(raw.texts) THEN <<>>
    ELSE (IF i <= Len(raw.points)
          THEN <<LegacyEntry(raw.texts[i], LegacySquare(image))>>
          ELSE <<>>)
         \o LegacyCollect(image, raw, i + 1)

\* The legacy detect_qr_codes (main_old.rs lines 93-147).
LegacyDetectQrCodes(image, raw) ==
    IF ~raw.ok THEN [ok |-> FALSE, results |-> <<>>]
    ELSE [ok |-> TRUE, results |-> LegacyCollect(image, raw, 1)]

\* The legacy process at its start; the pool of main_old.rs is defined and
\* never asked for.  Concurrent requests, the clock frozen as in Spec.
MaxBuilt == 3        \* detectors the legacy process builds in one run

LegacyInit ==
    /\ env = EnvOf(Absent, Absent)
    /\ InitRest
    /\ NothingDetached

\* main of main_old.rs up to its first await (lines 386-414):
\* check_model_files()?, then the test detector, built and kept to the end of
\* main; main returns Err when a model file is missing or the detector cannot
\* be built.
LegacyMain ==
    /\ mainPc = "start"
    /\ \E found, built \in BOOLEAN :
         /\ mainPc' = IF found /\ built THEN "bind" ELSE "exited"
         /\ constructed' = IF found /\ built THEN constructed + 1 ELSE constructed
    /\ UNCHANGED <<Detached, env, mainConfig, once, runner, building, warmTarget, POOL,
                   warmups, now, req>>

\* TcpListener::bind(&addr).await? and axum::serve (lines 416-417): requests
\* are accepted from here on, or main returns Err.
LegacyServe ==
    /\ mainPc = "bind"
    /\ \E bound \in BOOLEAN : mainPc' = IF bound THEN "serving" ELSE "exited"
    /\ UNCHANGED <<Detached, env, mainConfig, once, runner, building, warmTarget, POOL,
                   constructed, warmups, now, req>>

\* A request arrives at /detect/file or /detect/base64 and its handler
\* starts: start_time (lines 223, 307).  The legacy server has no WebSocket
\* route.
LegacyStart(r) ==
    /\ mainPc = "serving"
    /\ req[r].pc = "idle"
    /\ \A q \in Reqs : q < r => req[q].pc # "idle"
    /\ \E kind \in {"file", "base64"} :
         req' = [req EXCEPT ![r] = [IdleReq EXCEPT !.pc = "received", !.kind = kind,
                                                   !.start_time = now]]
    /\ UNCHANGED <<Detached, PoolShared, POOL, constructed, warmups, now>>

\* The payload of one legacy request: the multipart fields in stream order,
\* or the JSON map; the buffers are no bytes, bytes no decoder recognises,
\* and encoded images of 1x2 and of 640x480, the texts "", "AA==", "iVA=",
\* "/9j/" and "*AAA".  An upload has at most two
\* fields, and a field ahead of the last is one the loop passes over.
LegacyPayloads ==
    LET bufs == {<<>>, <<0>>, <<137, 80>>, <<255, 216, 255>>}
        fields == [name : {"image", "file", "other", "", "<error>"}, buf : bufs]
    IN [file |-> {[fields |-> fl, has_image |-> FALSE, buf |-> NoBuf] :
                     fl \in {<<>>} \cup {<<f>> : f \in fields}
                            \cup {<<f, g>> : f \in {x \in fields : /\ x.name \in {"other", ""}
                                                                     /\ x.buf = <<0>>},
                                             g \in fields}},
        base64 |-> {[fields |-> <<>>, has_image |-> h, buf |-> t] :
                       h \in BOOLEAN,
                       t \in {Base64Encode(b) : b \in bufs} \cup {<<65, 0, 0, 0>>}}]

\* The handler obtains the bytes or the base64 text, or returns BAD_REQUEST:
\* the field loop of detect_from_file (lines 225-229 and 301), payload.get
\* of detect_from_base64 (line 308); then decode_start (lines 232, 311).
LegacyExtract(r) ==
    /\ req[r].pc = "received"
    /\ \E payload \in LegacyPayloads[req[r].kind] :
         req' = [req EXCEPT ![r] =
                    IF ExtractBuffer(req[r].kind, payload).ok
                    THEN [@ EXCEPT !.pc = "decode",
                                   !.data = ExtractBuffer(req[r].kind, payload).data,
                                   !.decode_start = now]
                    ELSE [@ EXCEPT !.pc = "returned", !.start_time = 0,
                                   !.outcome = "missing_field",
                                   !.ret = ErrRet(req[r].kind, "missing_field")]]
    /\ UNCHANGED <<Detached, PoolShared, POOL, constructed, warmups, now>>

\* image.empty(): the legacy soft result (lines 248-263, 333-348); its
\* statistics have no pool acquisition time.
LegacyReturnSoft(r) ==
    /\ req[r].pc = "soft"
    /\ req' = [req EXCEPT ![r] =
                  [@ EXCEPT !.pc = "returned", !.start_time = 0, !.decode_time = F64Zero,
                            !.ret = OkRet([success |-> FALSE,
                                           message |-> [tag |-> "Invalid image format", n |-> 0],
                                           qrcodes |-> <<>>,
                                           count |-> 0,
                                           statistics |->
                                              [image_decode_time_ms |-> req[r].decode_time,
                                               detection_time_ms |-> F64Zero,
                                               total_time_ms |-> Millis[now - req[r].start_time],
                                               image_width |-> 0,
                                               image_height |-> 0]])]]
    /\ UNCHANGED <<Detached, PoolShared, POOL, constructed, warmups, now>>

\* detection_start, then QRCodeDetector::new() in the handler (lines 269-273,
\* 354-358): a detector of the request's own, or INTERNAL_SERVER_ERROR.
LegacyConstruct(r) ==
    /\ req[r].pc = "acquire"
    /\ \E built \in BOOLEAN :
         IF built
         THEN /\ constructed < MaxBuilt
              /\ constructed' = constructed + 1
              /\ req' = [req EXCEPT ![r] =
                            [@ EXCEPT !.pc = "detect", !.held = constructed + 1,
                                      !.detection_start = now]]
         ELSE /\ constructed' = constructed
              /\ req' = [req EXCEPT ![r] =
                            [@ EXCEPT !.pc = "returned", !.image = NoImage,
                                      !.start_time = 0, !.decode_time = F64Zero,
                                      !.outcome = "construct_error",
                                      !.ret = ErrRet(req[r].kind, "detector_error")]]
    /\ UNCHANGED <<Detached, PoolShared, POOL, warmups, now>>

\* The handler's return value after detect_qr_codes returned ret (lines
\* 274-297, 359-382): INTERNAL_SERVER_ERROR, or the response with
\* detection_time and total_time read at t.
LegacyDetectStage(q, ret, t) ==
    IF ret.ok
    THEN OkRet([success |-> TRUE,
                message |-> [tag |-> "Detected QR code(s)", n |-> Len(ret.results)],
                qrcodes |-> ret.results,
                count |-> Len(ret.results),
                statistics |->
                   [image_decode_time_ms |-> q.decode_time,
                    detection_time_ms |-> Millis[t - q.detection_start],
                    total_time_ms |-> Millis[t - q.start_time],
                    image_width |-> q.image.width,
                    image_height |-> q.image.height]])
    ELSE ErrRet(q.kind, "detector_error")

\* detect_qr_codes on the request's detector, the handler's return, and the
\* detector dropped with the handler's scope.  geom keeps the call: the
\* image, what the detector gave for it, and what detect_qr_codes returned.
LegacyDetect(r) ==
    /\ req[r].pc = "detect"
    /\ \E raw \in {NoRaw} \cup
                  {[ok |-> TRUE, texts |-> SubSeq(TextList, 1, k), points |-> p] :
                      k \in 0..MaxBlocks,
                      p \in SeqsUpTo({MatOf(s, CHOOSE c \in CornerPatterns : Len(c) = 8, TRUE) :
                                         s \in {<<4, 2>>, <<0, 0>>}}, MaxBlocks)} :
         geom' = [pc |-> "returned", image |-> req[r].image, raw |-> raw,
                  ret |-> LegacyDetectQrCodes(req[r].image, raw)]
    /\ req' = [req EXCEPT ![r] =
                  [@ EXCEPT !.pc = "returned", !.held = 0, !.image = NoImage,
                            !.start_time = 0, !.decode_time = F64Zero, !.detection_start = 0,
                            !.outcome = IF geom'.ret.ok THEN "detected" ELSE "detector_error",
                            !.ret = LegacyDetectStage(req[r], geom'.ret, now)]]
    /\ UNCHANGED <<ws, upload, peak, PoolShared, POOL, constructed, warmups, now>>

\* The legacy server: main, then any number of requests, each through the
\* stages of its handler; the decode stage (lines 235-246, 315-331) and the
\* rendering of the handler's return value are those of main.rs.
LegacySpec ==
    LegacyInit /\ [][
        \/ LegacyMain
        \/ LegacyServe
        \/ \E r \in Reqs :
             \/ LegacyStart(r)
             \/ LegacyExtract(r)
             \/ Decode(r)
             \/ LegacyReturnSoft(r)
             \/ LegacyConstruct(r)
             \/ LegacyDetect(r)
             \/ Respond(r)
             \/ Reset(r)
    ]_vars

\* ================================================================= claims
Range(f) == {f[i] : i \in DOMAIN f}
Holders == {r \in Reqs : req[r].held # 0}
Returned(r) == req[r].pc \in {"returned", "responded"}
InitialSize == get_pool_config(env).initial_size

\* C1: a request that holds a detector holds one that was constructed, that no
\* other request holds and that is not among the pool's available objects,
\* also when more requests hold detectors than were pre-warmed.
C1_NoSharedDetector ==
    \A r \in Reqs :
        req[r].held # 0 =>
            /\ req[r].held \in 1..constructed
            /\ req[r].held \notin Range(POOL.objects)
            /\ \A q \in Reqs \ {r} : req[q].held # req[r].held

\* More requests hold a detector at once than the warm-up built.
C1_Witness == Cardinality(Holders) > InitialSize

\* C2: whenever no request is in flight, the pool has at most max_size
\* available detectors.
C2_QuiescentWithinMax ==
    (POOL.some /\ \A r \in Reqs : req[r].pc = "idle")
        => Len(POOL.objects) <= get_pool_config(env).max_size

\* C3: acquire never waits for a release, so under fair scheduling every
\* request that reaches the acquire stage is eventually answered, whatever
\* the other requests hold.
AtAcquire(r) == req[r].pc \in {"get_pool", "pull", "construct"}

C3_AcquireLeadsToResponse ==
    \A r \in Reqs : AtAcquire(r) ~> (req[r].pc = "responded")

\* C4: among concurrent first callers of get_detector_pool at most one warm-up
\* pass starts; POOL is set only by its completion and then holds exactly
\* initial_size detectors, all that were ever built; a caller has the pool
\* only after the pass completed, and later calls build nothing.
C4_SingleWarmup ==
    /\ warmups <= 1
    /\ POOL.some <=> (once = "complete")
    /\ once = "complete" =>
          /\ warmups = 1
          /\ Len(POOL.objects) = InitialSize
          /\ constructed = InitialSize
    /\ \A c \in Callers : CallerPc(c) = AfterPool(c) => once = "complete"

\* Every caller that entered at once has the pool of the single warm-up.
C4_Witness ==
    /\ once = "complete"
    /\ warmups = 1
    /\ \A c \in Callers : CallerPc(c) = AfterPool(c)

\* C5: a request stops holding its detector only by the step that puts it
\* into the pool's available objects and hands the return value to the
\* caller; once the pipeline has returned (and when the response is sent) the
\* request holds nothing, after a detection that succeeded as after one that
\* failed.
C5_ReleasedBeforeReturn ==
    /\ [][\A r \in Reqs :
            (req[r].held # 0 /\ req'[r].held = 0) =>
                /\ req'[r].pc = "returned"
                /\ req[r].held \in Range(POOL'.objects)]_vars
    /\ [](\A r \in Reqs :
            /\ Returned(r) => req[r].held = 0
            /\ req[r].pc = "drop" => req[r].held # 0)

\* The detector failed, the pipeline has returned and every detector ever
\* built is available again.
C5_Witness ==
    \E r \in Reqs :
        /\ req[r].pc = "returned"
        /\ req[r].outcome = "detector_error"
        /\ Len(POOL.objects) = constructed

IsSoftResult(ret) ==
    /\ ret.tag = "ok"
    /\ ret.body.success = FALSE
    /\ ret.body.qrcodes = <<>>
    /\ ret.body.count = 0
    /\ ret.body.statistics.detection_time_ms = F64Zero

\* C6: a buffer that fails to decode, like one that decodes to an empty
\* image, gives the result with success=false, no codes, count 0 and
\* detection time 0, and no error.
C6_DecodeFailureIsSoft ==
    \A r \in Reqs :
        (Returned(r) /\ req[r].outcome \in {"decode_error", "empty_image"})
            => IsSoftResult(req[r].ret)

\* C7: a detector error is a hard failure (500 without a result on the HTTP
\* paths, an error envelope without a result on the WebSocket paths), never a
\* result; a detection that returned, with codes or without, gives success=true.
C7_DetectorErrorIsHard ==
    \A r \in Reqs :
        Returned(r) =>
            /\ req[r].outcome = "detector_error" =>
                  /\ req[r].ret.tag = "err"
                  /\ IsHttp(req[r].kind) => req[r].ret.status = 500
                  /\ req[r].pc = "responded" =>
                        /\ ~req[r].resp.has_body
                        /\ ~req[r].resp.success
                        /\ IsHttp(req[r].kind) => req[r].resp.status = 500
                        /\ ~IsHttp(req[r].kind) => req[r].resp.msg_type = "error"
            /\ req[r].outcome = "detected" =>
                  /\ req[r].ret.tag = "ok"
                  /\ req[r].ret.body.success
                  /\ req[r].ret.body.count = Len(req[r].ret.body.qrcodes)
                  /\ req[r].pc = "responded" =>
                        /\ req[r].resp.has_body
                        /\ req[r].resp.success

\* A detector error was answered on an HTTP path.
C7_Witness ==
    \E r \in Reqs :
        /\ req[r].pc = "responded"
        /\ req[r].outcome = "detector_error"
        /\ IsHttp(req[r].kind)

\* C8: every result has count equal to the number of its codes, and has
\* success=false only for an image that failed to decode or was empty, then
\* with no codes.
C8_CountAndSuccess ==
    \A r \in Reqs :
        (Returned(r) /\ req[r].ret.tag = "ok") =>
            /\ req[r].ret.body.count = Len(req[r].ret.body.qrcodes)
            /\ ~req[r].ret.body.success =>
                  /\ req[r].outcome \in {"decode_error", "empty_image"}
                  /\ req[r].ret.body.qrcodes = <<>>
            /\ req[r].pc = "responded" =>
                  /\ req[r].resp.body = req[r].ret.body
                  /\ req[r].resp.success = req[r].ret.body.success

\* A result with at least one code was sent.
C8_Witness ==
    \E r \in Reqs :
        /\ req[r].pc = "responded"
        /\ req[r].resp.has_body
        /\ req[r].resp.body.count >= 1
        /\ Len(req[r].resp.body.qrcodes) >= 1

\* The reported times compared as the numbers they are.  The digits of
\* x / 2^e for an exponent e not above that of x, the least exponent among
\* the times of a result (0 when all are zero), and a <= b for two numbers
\* given by their digits, the highest a one.
Shifted(x, e) == IF x = F64Zero THEN <<>> ELSE [i \in 1..(x.e - e) |-> 0] \o x.m
LeastExponent(st) ==
    CHOOSE e \in {0, st.image_decode_time_ms.e, st.pool_acquisition_time_ms.e,
                  st.detection_time_ms.e, st.total_time_ms.e} :
        /\ e <= 0
        /\ e <= st.image_decode_time_ms.e /\ e <= st.pool_acquisition_time_ms.e
        /\ e <= st.detection_time_ms.e /\ e <= st.total_time_ms.e
BitsLeq(a, b) ==
    \/ Len(a) < Len(b)
    \/ /\ Len(a) = Len(b)
       /\ \/ a = b
          \/ \E i \in 1..Len(a) :
                a[i] = 0 /\ b[i] = 1 /\ \A j \in (i + 1)..Len(a) : a[j] = b[j]

\* C9: in every result the total time is at least the sum of the decode,
\* pool-acquisition and detection times, as the numbers reported; none of
\* the four is negative, each being the f64 of a Duration.
C9_TimesAddUp ==
    \A r \in Reqs :
        (Returned(r) /\ req[r].ret.tag = "ok") =>
            LET st == req[r].ret.body.statistics IN
            BitsLeq(AddBits(AddBits(Shifted(st.image_decode_time_ms, LeastExponent(st)),
                                    Shifted(st.pool_acquisition_time_ms, LeastExponent(st)),
                                    0),
                            Shifted(st.detection_time_ms, LeastExponent(st)), 0),
                    Shifted(st.total_time_ms, LeastExponent(st)))

\* C10: whatever the two variables hold, 1 <= initial_size <= 100 and
\* initial_size <= max_size <= 200; an initial size that is absent or does not
\* parse is 10, a max size that is absent or does not parse is 50 raised to
\* initial_size.
C10_ConfigWithinBounds ==
    mainPc = "configured" =>
        /\ 1 <= mainConfig.initial_size /\ mainConfig.initial_size <= 100
        /\ mainConfig.initial_size <= mainConfig.max_size
        /\ mainConfig.max_size <= 200
        /\ env.POOL_INITIAL_SIZE.kind # "digits" => mainConfig.initial_size = 10
        /\ env.POOL_MAX_SIZE.kind # "digits" =>
              mainConfig.max_size = Max2(50, mainConfig.initial_size)
        /\ env.POOL_INITIAL_SIZE.kind = "digits" =>
              mainConfig.initial_size = Min2(Max2(env.POOL_INITIAL_SIZE.n, 1), 100)

\* A zero initial size and a max size beyond the cap were read.
C10_Witness ==
    /\ mainPc = "configured"
    /\ env.POOL_INITIAL_SIZE = Digits(0)
    /\ env.POOL_MAX_SIZE.kind = "digits" /\ env.POOL_MAX_SIZE.n > 200
    /\ mainConfig = [initial_size |-> 1, max_size |-> 200]

\* ------------------------------------------------- claims on the geometry
\* The call of detect_qr_codes has returned Ok; entry i of its result belongs
\* to text i and, when there is one, to corner Mat i.
GeomReturned == geom.pc = "returned" /\ geom.ret.ok
Entries == IF GeomReturned THEN 1..Len(geom.ret.results) ELSE {}
HasMat(i) == i <= Len(geom.raw.points)
IsBlock(mat) == mat.rows >= 4 /\ mat.cols >= 2
IsFlat(mat) == ~IsBlock(mat) /\ mat.rows * mat.cols >= 8

\* C11: for a corner Mat with at least 4 rows and 2 columns the points are
\* the pairs (row j column 0, row j column 1), j = 0..3, in that order, each
\* component rounded as round(value*10)/10; no other element is read.
C11_BlockRowsInOrder ==
    \A i \in Entries :
        (HasMat(i) /\ IsBlock(geom.raw.points[i])) =>
            geom.ret.results[i].points =
                [j \in 1..4 |->
                    <<RoundToTenth(geom.raw.points[i].data[(j - 1) * geom.raw.points[i].cols + 1]),
                      RoundToTenth(geom.raw.points[i].data[(j - 1) * geom.raw.points[i].cols + 2])>>]

\* A Mat with spare rows and columns was read, and x and y differ in it.
C11_Witness ==
    \E i \in Entries :
        /\ HasMat(i)
        /\ geom.raw.points[i].rows > 4
        /\ geom.raw.points[i].cols > 2
        /\ geom.ret.results[i].points[1][1] # geom.ret.results[i].points[1][2]
        /\ geom.ret.results[i].points[2] # geom.ret.results[i].points[1]

\* The 4x2 block that holds the first eight elements of a Mat, row by row.
AsBlock(mat) == [rows |-> 4, cols |-> 2, f32 |-> mat.f32, data |-> SubSeq(mat.data, 1, 8)]

\* C12: a Mat read as a flattened sequence gives the same four points and
\* the same bounding box as detect_qr_codes gives for the 4x2 block holding
\* the same values in row-major order.
C12_FlatEqualsBlock ==
    \A i \in Entries :
        (HasMat(i) /\ IsFlat(geom.raw.points[i])) =>
            LET block == QRCodeResults(geom.image,
                                       [geom.raw EXCEPT !.points[i] = AsBlock(@)])
            IN /\ block.ok
               /\ block.results[i].path = "rows"
               /\ geom.ret.results[i].path = "flat"
               /\ geom.ret.results[i].points = block.results[i].points
               /\ geom.ret.results[i].bbox = block.results[i].bbox

\* A 2x4 Mat was read as a flattened sequence, and its values differ.
C12_Witness ==
    \E i \in Entries :
        /\ HasMat(i)
        /\ geom.raw.points[i].rows = 2
        /\ geom.raw.points[i].cols = 4
        /\ geom.ret.results[i].path = "flat"
        /\ geom.ret.results[i].points[1][1] # geom.ret.results[i].points[3][1]
        /\ geom.ret.results[i].points[1][2] # geom.ret.results[i].points[3][2]

\* What detect_qr_codes returns for one text on an image when the detector
\* gives no corner Mat, and when it gives an unusable one.
AbsentEntry(image) ==
    QRCodeResults(image, [ok |-> TRUE, texts |-> <<"a">>, points |-> <<>>]).results[1]
MalformedEntry(image) ==
    QRCodeResults(image,
                  [ok |-> TRUE, texts |-> <<"a">>,
                   points |-> <<[rows |-> 0, cols |-> 0, f32 |-> TRUE, data |-> <<>>]>>]).results[1]

\* n tenths as an f32.
Tenths(n) == F32Div(F32FromInt(n), F32FromInt(10))

\* C13: with absent or malformed corner data the result has four points, the
\* corners of the square of side 0.6*min(w,h) centred in the image in the
\* order top-left, top-right, bottom-right, bottom-left (to the tenth of a
\* pixel), its bounding box is as wide as high, and the absent-data path and
\* the malformed-data path give the same points and the same bounding box.
C13_FallbackSquare ==
    \A i \in Entries :
        geom.ret.results[i].path \in {"fallback_absent", "fallback_invalid"} =>
            LET w == geom.image.width
                h == geom.image.height
                side == 6 * Min2(w, h)
                left == 5 * w - 3 * Min2(w, h)
                top == 5 * h - 3 * Min2(w, h)
                p == geom.ret.results[i].points
            IN /\ Len(p) = 4
               /\ [j \in 1..4 |-> <<RoundToTenth(p[j][1]), RoundToTenth(p[j][2])>>]
                    = <<<<Tenths(left), Tenths(top)>>,
                        <<Tenths(left + side), Tenths(top)>>,
                        <<Tenths(left + side), Tenths(top + side)>>,
                        <<Tenths(left), Tenths(top + side)>>>>
               /\ p[1][1] = p[4][1] /\ p[2][1] = p[3][1]
               /\ p[1][2] = p[2][2] /\ p[3][2] = p[4][2]
               /\ geom.ret.results[i].bbox.width = geom.ret.results[i].bbox.height
               /\ AbsentEntry(geom.image).points = MalformedEntry(geom.image).points
               /\ AbsentEntry(geom.image).bbox = MalformedEntry(geom.image).bbox

\* C14: the bounding box of every emitted entry is the enclosure of its four
\* points: x and y are the least x and y, width and height the differences of
\* the greatest and the least (as f32, or to the tenth), neither negative; the
\* corners (10,10),(290,10),(290,290),(10,290) give {10, 10, 280, 280}.
C14_BBoxIsEnclosure ==
    \A i \in Entries :
        LET p == geom.ret.results[i].points
            b == geom.ret.results[i].bbox
            min_x == FoldMin(F32Infinity, p, 1)
            max_x == FoldMax(F32NegInfinity, p, 1)
            min_y == FoldMin(F32Infinity, p, 2)
            max_y == FoldMax(F32NegInfinity, p, 2)
        IN /\ b.x = min_x
           /\ b.y = min_y
           /\ b.width \in {F32Sub(max_x, min_x), RoundToTenth(F32Sub(max_x, min_x))}
           /\ b.height \in {F32Sub(max_y, min_y), RoundToTenth(F32Sub(max_y, min_y))}
           /\ ~F32Lt(b.width, F32Zero) /\ ~F32Lt(b.height, F32Zero)
           /\ (p = <<<<Tenths(100), Tenths(100)>>, <<Tenths(2900), Tenths(100)>>,
                     <<Tenths(2900), Tenths(2900)>>, <<Tenths(100), Tenths(2900)>>>>
                 => b = [x |-> Tenths(100), y |-> Tenths(100),
                         width |-> Tenths(2800), height |-> Tenths(2800)])

\* C15: every shape of corner data yields exactly four points, by the path
\* this precedence names: rows and columns when rows >= 4 and columns >= 2,
\* else flattened when there are at least 8 elements, else the fallback
\* square; each entry comes from exactly that one path.
C15_OnePathByPrecedence ==
    /\ GeomReturned => Len(geom.ret.results) = Len(geom.raw.texts)
    /\ \A i \in Entries :
        LET r == geom.ret.results[i]
            block == HasMat(i) /\ IsBlock(geom.raw.points[i])
            flat == HasMat(i) /\ IsFlat(geom.raw.points[i])
        IN /\ Len(r.points) = 4
           /\ block => r.path = "rows" /\ r.points = RowsPath(geom.raw.points[i])
           /\ flat => r.path = "flat" /\ r.points = FlatPath(geom.raw.points[i])
           /\ (~block /\ ~flat) =>
                 /\ r.path \in {"fallback_absent", "fallback_invalid"}
                 /\ r.points = FallbackSquare(geom.image)

\* One call took two different paths, a block of 8 rows and 1 column among
\* them (at least 4 rows, yet read flattened).
C15_Witness ==
    \E i, k \in Entries :
        /\ geom.ret.results[i].path = "flat"
        /\ geom.raw.points[i].rows = 8
        /\ geom.ret.results[k].path = "fallback_invalid"
        /\ Len(geom.ret.results[k].points) = 4

\* --------------------------------------------- claims on the WebSocket loop
\* The positions in the log of the requests (text and binary messages), and
\* the envelopes sent in answer to requests (all but the welcome message).
IsRequestAt(k) ==
    ws.log[k] \in {"text_detect", "text_close", "text_unknown", "text_invalid", "binary"}
RequestPositions == SelectSeq([k \in 1..Len(ws.log) |-> k], IsRequestAt)
IsReply(f) == f.frame = "text" /\ f.msg_type # "connected"
Replies == SelectSeq(ws.sent, IsReply)
FramesFor(k) == SelectSeq(ws.sent, LAMBDA f : f.re = k)
LastSent == ws.sent[Len(ws.sent)]

\* An envelope is one the handler builds for a message of the class.
AnswerFits(class, f) ==
    IF class = "text_detect"
    THEN \/ f.msg_type = "detection_result" /\ f.has_result
         \/ f.msg_type = "error" /\ f.message \in {"Detection failed", "Missing image data"}
    ELSE IF class = "binary"
    THEN \/ f.msg_type = "detection_result" /\ f.has_result
         \/ f.msg_type = "error" /\ f.message = "Binary detection failed"
    ELSE IF class = "text_close" THEN f.msg_type = "close"
    ELSE IF class = "text_unknown"
    THEN f.msg_type = "error" /\ f.message = "Unknown message type"
    ELSE f.msg_type = "error" /\ f.message = "Invalid request format"

\* C16: one inbound message is handled to the end, its response sent, before
\* the next is read: the k-th envelope sent answers the k-th request
\* received, frames leave in the order of the messages they answer, at most
\* the request read last is unanswered, and the pipeline runs only while the
\* loop waits for it.
C16_RepliesInRequestOrder ==
    /\ Len(Replies) <= Len(RequestPositions)
    /\ \A j \in 1..Len(Replies) :
          /\ Replies[j].re = RequestPositions[j]
          /\ AnswerFits(ws.log[RequestPositions[j]], Replies[j])
    /\ \A i, j \in 1..Len(ws.sent) : i < j => ws.sent[i].re < ws.sent[j].re
    /\ Len(RequestPositions) > Len(Replies) =>
          /\ Len(RequestPositions) = Len(Replies) + 1
          /\ RequestPositions[Len(RequestPositions)] = Len(ws.log)
          /\ ws.pc \in {"handling", "replying"} \/ ws.end = "send_failed"
    /\ req[FirstReq].pc # "idle" => ws.pc = "handling"

\* Three requests of three kinds, each answered in its turn.
C16_Witness ==
    /\ ws.log = <<"text_detect", "binary", "text_unknown">>
    /\ Len(Replies) = 3
    /\ Replies[1].msg_type = "detection_result"
    /\ Replies[2].message = "Binary detection failed"
    /\ Replies[3].message = "Unknown message type"

\* C17: a text message of type "close" is answered with one acknowledgment
\* and the loop ends: no message is read after it.  The sequence detect,
\* close yields one detection_result envelope, the acknowledgment, and the
\* end of the session.
C17_CloseEndsSession ==
    /\ \A k \in 1..Len(ws.log) :
          ws.log[k] = "text_close" =>
             /\ k = Len(ws.log)
             /\ ws.pc \in {"replying", "closed"}
             /\ ws.pc = "replying" => FramesFor(k) = <<>>
             /\ ws.pc = "closed" =>
                   \/ /\ ws.end = "close_request"
                      /\ Len(FramesFor(k)) = 1
                      /\ LastSent.msg_type = "close" /\ LastSent.success /\ LastSent.re = k
                   \/ ws.end = "send_failed" /\ FramesFor(k) = <<>>
    /\ (ws.log = <<"text_detect", "text_close">> /\ ws.end = "close_request") =>
          /\ Len(ws.sent) = 3
          /\ ws.sent[2].outcome \in {"detected", "empty_image"}
                <=> ws.sent[2].msg_type = "detection_result"
          /\ ws.sent[3].msg_type = "close"

\* detect, close: the welcome, one detection_result, the acknowledgment.
C17_Witness ==
    /\ ws.log = <<"text_detect", "text_close">>
    /\ ws.pc = "closed"
    /\ ws.end = "close_request"
    /\ [i \in 1..Len(ws.sent) |-> ws.sent[i].msg_type]
         = <<"connected", "detection_result", "close">>
    /\ ws.sent[2].success

\* C18: a text message of another type is answered with one error envelope
\* (success = false), the loop goes on reading, and no detector is acquired
\* for it.
C18_UnknownTypeKeepsSession ==
    \A k \in 1..Len(ws.log) :
        ws.log[k] = "text_unknown" =>
           /\ Len(FramesFor(k)) <= 1
           /\ \A i \in 1..Len(FramesFor(k)) :
                 /\ FramesFor(k)[i].msg_type = "error"
                 /\ ~FramesFor(k)[i].success
                 /\ ~FramesFor(k)[i].has_result
                 /\ FramesFor(k)[i].outcome = ""
           /\ k < Len(ws.log) => Len(FramesFor(k)) = 1
           /\ k = Len(ws.log) =>
                 /\ req[FirstReq] = IdleReq
                 /\ Len(POOL.objects) = constructed
                 /\ \/ ws.pc = "replying" /\ FramesFor(k) = <<>>
                    \/ ws.pc = "reading" /\ Len(FramesFor(k)) = 1
                    \/ ws.pc = "closed" /\ ws.end = "send_failed" /\ FramesFor(k) = <<>>
                    \/ ws.pc = "closed" /\ ws.end = "stream_end" /\ Len(FramesFor(k)) = 1

\* After the error envelope the next message, a detect request, was handled.
C18_Witness ==
    /\ ws.log = <<"text_unknown", "text_detect">>
    /\ ws.pc = "reading"
    /\ [i \in 1..Len(ws.sent) |-> ws.sent[i].msg_type]
         = <<"connected", "error", "detection_result">>
    /\ ws.sent[3].success

IsFailure(f) ==
    f.outcome \in {"missing_field", "bad_base64", "decode_error", "empty_image",
                   "detector_error"}

\* The loop did not end of the server's own accord after frame j was sent.
StaysOpenAfter(j) ==
    (j = Len(ws.sent) /\ ws.pc = "closed") =>
        ws.end \in {"stream_end", "close_frame", "stream_error", "send_failed"}

\* C19 as stated: every failed detection request, hard or soft, is answered
\* with an envelope of type "error", and the connection stays open.
C19_FailuresAreErrorEnvelopes ==
    \A j \in 1..Len(ws.sent) :
        IsFailure(ws.sent[j]) => ws.sent[j].msg_type = "error" /\ StaysOpenAfter(j)

\* C19, amended: a hard failure (no image field, invalid base64, a codec
\* error, a detector error) is answered with an envelope of type "error"; a
\* soft failure (the bytes decode to an empty image) with an envelope of type
\* "detection_result" whose success is false; the connection stays open
\* afterwards unless the peer ends it or a send fails.
C19_FailureEnvelopes ==
    \A j \in 1..Len(ws.sent) :
        IsFailure(ws.sent[j]) =>
           /\ ~ws.sent[j].success
           /\ ws.sent[j].outcome = "empty_image" =>
                 /\ ws.sent[j].msg_type = "detection_result"
                 /\ ws.sent[j].has_result
                 /\ ws.sent[j].message = "Invalid image format"
           /\ ws.sent[j].outcome # "empty_image" =>
                 /\ ws.sent[j].msg_type = "error"
                 /\ ~ws.sent[j].has_result
           /\ StaysOpenAfter(j)

\* A detector error and a soft failure were both answered, and the loop reads on.
C19_Witness ==
    /\ ws.pc = "reading"
    /\ Len(ws.sent) = 3
    /\ ws.sent[2].outcome = "detector_error" /\ ws.sent[2].msg_type = "error"
    /\ ws.sent[3].outcome = "empty_image" /\ ws.sent[3].msg_type = "detection_result"

\* ------------------------------------------------ claims on the HTTP paths
HttpResponded(r) == req[r].pc = "responded" /\ IsHttp(req[r].kind)

\* C20 as stated: every HTTP response, success, soft failure or hard failure,
\* is a structured payload with success, message, qrcodes, count, statistics.
C20_EveryHttpResponseStructured ==
    \A r \in Reqs :
        HttpResponded(r) =>
           /\ req[r].resp.has_body
           /\ DOMAIN req[r].resp.body = {"success", "message", "qrcodes", "count", "statistics"}

\* C20, amended: a success and a soft failure are answered with status 200
\* and the structured payload; a hard failure with a bare status and no
\* payload, 400 for a request without a usable image (no field, failed
\* stream, invalid base64, codec error), 500 for a detector error.
C20_HttpPayloadOrBareStatus ==
    \A r \in Reqs :
        HttpResponded(r) =>
           /\ req[r].outcome \in {"detected", "empty_image"} =>
                 /\ req[r].resp.status = StatusOk
                 /\ req[r].resp.has_body
                 /\ DOMAIN req[r].resp.body
                      = {"success", "message", "qrcodes", "count", "statistics"}
                 /\ req[r].resp.body.success = (req[r].outcome = "detected")
                 /\ req[r].resp.body.count = Len(req[r].resp.body.qrcodes)
           /\ req[r].outcome \in {"missing_field", "bad_base64", "decode_error"} =>
                 req[r].resp.status = StatusBadRequest /\ ~req[r].resp.has_body
           /\ req[r].outcome = "detector_error" =>
                 req[r].resp.status = StatusInternalServerError /\ ~req[r].resp.has_body
           /\ req[r].outcome # ""

\* A file upload on which the detector failed was answered with a bare 500.
C20_Witness ==
    \E r \in Reqs :
        /\ HttpResponded(r)
        /\ req[r].kind = "file"
        /\ req[r].outcome = "detector_error"
        /\ req[r].resp.status = StatusInternalServerError
        /\ ~req[r].resp.has_body

\* ------------------------------------------- claims on rejected requests
\* The warm pool as Pool::new left it: nothing taken, nothing added.
PoolUntouched ==
    /\ POOL.some
    /\ POOL.objects = [i \in 1..InitialSize |-> i]
    /\ constructed = InitialSize

\* The request never reached the acquire stage.
NeverAcquired(q) == q.held = 0 /\ q.pool_start = 0 /\ q.pool_acquisition_time = F64Zero

\* A request without an image field, or whose image text is no base64.
Malformed(q) == q.outcome \in {"missing_field", "bad_base64"}

\* The rejection of a malformed request: Err from the pipeline, 400 without
\* a body on the HTTP paths, an "error" envelope on the WebSocket paths.
Rejected(q) ==
    /\ q.pc \in {"returned", "responded"}
    /\ q.ret.tag = "err"
    /\ IsHttp(q.kind) => q.ret.status = StatusBadRequest
    /\ q.pc = "responded" =>
          IF IsHttp(q.kind)
          THEN q.resp.status = StatusBadRequest /\ ~q.resp.has_body
          ELSE q.resp.msg_type = "error" /\ ~q.resp.success /\ ~q.resp.has_body

\* C21: a malformed request (no image or file field, no "image" key, invalid
\* base64, a WebSocket detect without image) is rejected with 400 or an
\* "error" envelope; it never reaches the acquire stage, no detector is
\* constructed for it and the pool's available objects stay as they were.
\* Text that is no base64 ends the request at the decode step.
C21_MalformedRejectedEarly ==
    /\ [](\A r \in Reqs :
            Malformed(req[r]) =>
               Rejected(req[r]) /\ NeverAcquired(req[r]) /\ PoolUntouched)
    /\ [][\A r \in Reqs :
            (req[r].pc = "decode" /\ req[r].data.encoding = "base64"
               /\ ~Base64Decode(req[r].data.buf).ok /\ req'[r] # req[r]) =>
                  /\ req'[r].pc = "returned"
                  /\ req'[r].outcome = "bad_base64"
                  /\ POOL' = POOL /\ constructed' = constructed]_vars

\* A WebSocket detect request without image was answered with the error
\* envelope, the pool as it was.
C21_Witness ==
    \E r \in Reqs :
        /\ req[r].pc = "responded"
        /\ req[r].kind = "ws_text"
        /\ req[r].outcome = "missing_field"
        /\ req[r].resp.msg_type = "error"
        /\ req[r].resp.message.tag = "Missing image data"
        /\ PoolUntouched

\* --------------------------------------------- claims on the field loop
\* The positions of the fields the loop can return from, and the first one.
Matching == {i \in 1..Len(upload.fields) : upload.fields[i].name \in {"image", "file"}}
Failing == {i \in 1..Len(upload.fields) : upload.fields[i].name = "<error>"}
FirstOf(S) == CHOOSE i \in S : \A j \in S : i <= j

\* C22: the loop takes the fields in order, passes over every field named
\* neither image nor file, hands the bytes of the first field named image or
\* file to the pipeline, once, and reads no field after it; without such a
\* field (or when the stream fails before it) the request is rejected.
C22_FirstImageOrFileField ==
    upload.pc = "scanned" =>
        IF Matching # {} /\ \A e \in Failing : FirstOf(Matching) < e
        THEN /\ upload.got.ok
             /\ upload.got.data = [encoding |-> "raw",
                                   buf |-> upload.fields[FirstOf(Matching)].buf]
             /\ upload.stopped = FirstOf(Matching)
        ELSE /\ ~upload.got.ok
             /\ upload.got.data = NoData
             /\ ErrRet("file", "missing_field").status = StatusBadRequest
             /\ upload.stopped = IF Failing # {} THEN FirstOf(Failing)
                                 ELSE Len(upload.fields) + 1

\* A field of another name was passed over, the field named file after it
\* taken, and the field named image after that, with other bytes, not read.
C22_Witness ==
    /\ upload.pc = "scanned"
    /\ Len(upload.fields) = 3
    /\ upload.fields[1].name = "other"
    /\ upload.fields[2].name = "file"
    /\ upload.fields[3].name = "image"
    /\ upload.fields[3].buf # upload.fields[2].buf
    /\ upload.got.ok
    /\ upload.got.data.buf = upload.fields[2].buf
    /\ upload.stopped = 2

\* ------------------------------------------------- claims on instance reuse
\* C23: an acquire that finds the pool non-empty takes an instance built
\* earlier and builds none; it turns to the fallback closure only when the
\* Vec is empty at the moment of the take, which needs another request to
\* hold a detector then, so requests served one after another never build
\* a detector beyond the pre-warmed ones.
C23_ReuseBeforeConstruct ==
    [][\A r \in Reqs :
          (req[r].pc = "pull" /\ req'[r] # req[r]) =>
             IF POOL.objects # <<>>
             THEN /\ req'[r].pc = "detect"
                  /\ req'[r].held = POOL.objects[Len(POOL.objects)]
                  /\ req'[r].held \in 1..constructed
                  /\ constructed' = constructed
                  /\ POOL'.objects = SubSeq(POOL.objects, 1, Len(POOL.objects) - 1)
             ELSE /\ req'[r].pc = "construct"
                  /\ req'[r].held = 0
                  /\ \E q \in Reqs \ {r} : req[q].held # 0]_vars

\* The only detector there is was held by a request that has returned, and
\* is held again by another: taken after its release, and none was built.
C23_Witness ==
    /\ InitialSize = 1
    /\ constructed = 1
    /\ POOL.objects = <<>>
    /\ \E r, q \in Reqs :
          /\ r # q
          /\ req[r].held = 1
          /\ req[q].pc \in {"returned", "responded"}
          /\ req[q].outcome = "detected"

\* ------------------------------------------ claims on construction failure
\* A construction failure has happened and is still on record: main has
\* panicked in the warm-up, or a request task in its fallback closure.
ConstructionFailed == mainPc = "panicked" \/ \E r \in Reqs : req[r].pc = "panicked"

\* C24: a failure to construct a detector, in the warm-up or in the fallback
\* closure of a request, ends the process: from then on no request is
\* accepted and none is answered.
C24_ConstructionFailureIsFatal ==
    [][ConstructionFailed =>
          \A q \in Reqs :
              /\ ~(req[q].pc = "idle" /\ req'[q].pc = "received")
              /\ ~(req[q].pc = "returned" /\ req'[q].pc = "responded")]_vars

\* ------------------------------------------- claims on emitted coordinates
\* An f32 that is a value rounded to one decimal place: rounding it again as
\* the code rounds, round(v * 10) / 10, gives the same f32.
IsTenth(v) == RoundToTenth(v) = v

\* C25: x, y, width and height of the bounding box of every emitted entry
\* are values rounded to one decimal place, on every geometry path, the
\* absent-data fallback included.
C25_BBoxRoundedToTenth ==
    \A i \in Entries :
        /\ IsTenth(geom.ret.results[i].bbox.x)
        /\ IsTenth(geom.ret.results[i].bbox.y)
        /\ IsTenth(geom.ret.results[i].bbox.width)
        /\ IsTenth(geom.ret.results[i].bbox.height)

\* C26: when the detector call and every element read succeed, the call
\* emits one entry per text, in detector order, entry i with text i,
\* whatever corner Mats come with the texts, fewer Mats than texts included;
\* no pass of the loop ends with an empty coordinate list.
C26_OneEntryPerText ==
    GeomReturned =>
        /\ Len(geom.ret.results) = Len(geom.raw.texts)
        /\ \A i \in 1..Len(geom.raw.texts) :
              /\ geom.ret.results[i].text = geom.raw.texts[i]
              /\ EntryFor(geom.image, geom.raw, i).emit
              /\ Coordinates(geom.image, geom.raw, i).points # <<>>

\* Two texts with one Mat, too small to read: two entries, in order, the
\* first from the malformed-data fallback, the second from the absent-data one.
C26_Witness ==
    /\ GeomReturned
    /\ geom.raw.texts = <<"a", "b">>
    /\ Len(geom.raw.points) = 1
    /\ Len(geom.ret.results) = 2
    /\ geom.ret.results[1].text = "a" /\ geom.ret.results[1].path = "fallback_invalid"
    /\ geom.ret.results[2].text = "b" /\ geom.ret.results[2].path = "fallback_absent"

\* ------------------------------------------ claims on the ingress adapters
\* The outcome class of a pipeline run, and its DetectionResponse without
\* the three measured times.
OutcomeClass(q) ==
    IF q.outcome = "detected" THEN "success"
    ELSE IF q.outcome = "empty_image" THEN "soft"
    ELSE IF q.outcome = "" THEN "" ELSE "hard"
Untimed(body) ==
    [success |-> body.success, message |-> body.message, qrcodes |-> body.qrcodes,
     count |-> body.count, image_width |-> body.statistics.image_width,
     image_height |-> body.statistics.image_height]
ReachedDetector(q) == q.outcome \in {"detected", "detector_error"}
SecondReq == FirstReq + 1

\* C27: two requests of different ingress kinds with the same bytes end the
\* decode stage alike (the same error, the same soft result, or the same
\* image for the detector) and, where the detector behaves alike for both,
\* return the same outcome class and the same response fields apart from the
\* times; a binary frame and a text detect with the base64 of its bytes are
\* such a pair.
C27_SamePipelineOnEveryPath ==
    (Returned(FirstReq) /\ Returned(SecondReq)) =>
        /\ ReachedDetector(req[FirstReq]) <=> ReachedDetector(req[SecondReq])
        /\ ~ReachedDetector(req[FirstReq]) =>
              /\ req[FirstReq].outcome = req[SecondReq].outcome
              /\ req[FirstReq].ret.tag = req[SecondReq].ret.tag
              /\ Untimed(req[FirstReq].ret.body) = Untimed(req[SecondReq].ret.body)
        /\ (ReachedDetector(req[FirstReq])
              /\ req[FirstReq].ret.tag = req[SecondReq].ret.tag
              /\ req[FirstReq].ret.body.qrcodes = req[SecondReq].ret.body.qrcodes) =>
              /\ OutcomeClass(req[FirstReq]) = OutcomeClass(req[SecondReq])
              /\ Untimed(req[FirstReq].ret.body) = Untimed(req[SecondReq].ret.body)

\* A binary frame and a text detect request with the same image both
\* returned the detected code.
C27_Witness ==
    /\ req[FirstReq].kind = "ws_binary"
    /\ req[SecondReq].kind = "ws_text"
    /\ Returned(FirstReq) /\ Returned(SecondReq)
    /\ req[FirstReq].outcome = "detected" /\ req[SecondReq].outcome = "detected"
    /\ req[FirstReq].ret.body.count = 1
    /\ Untimed(req[FirstReq].ret.body) = Untimed(req[SecondReq].ret.body)

\* ----------------------------------------- claims on the WebSocket session
\* C28: the first message sent on a connection is the connected
\* acknowledgment, and no inbound message is read before it was delivered;
\* a connection whose acknowledgment could not be sent is closed with no
\* message read, no pipeline started and no detector taken from the pool.
C28_WelcomeBeforeAnyRead ==
    /\ ws.sent # <<>> => ws.sent[1] = WelcomeMsg
    /\ ws.pc = "connecting" =>
          ws.sent = <<>> /\ ws.log = <<>> /\ req[FirstReq] = IdleReq
    /\ ws.sent = <<>> =>
          /\ ws.log = <<>>
          /\ ws.pc \in {"none", "connecting", "closed"}
          /\ req[FirstReq] = IdleReq
    /\ (ws.pc = "closed" /\ ws.sent = <<>>) =>
          /\ ws.end = "send_failed"
          /\ NeverAcquired(req[FirstReq])
          /\ PoolUntouched

\* The acknowledgment could not be sent and the handler has returned.
C28_Witness ==
    /\ ws.pc = "closed"
    /\ ws.end = "send_failed"
    /\ ws.sent = <<>>
    /\ ws.log = <<>>
    /\ PoolUntouched

\* The five ways the session loop is left, and the messages that do not
\* leave it.
LoopEnds == {"close_request", "close_frame", "stream_error", "stream_end", "send_failed"}
LastRead == ws.log[Len(ws.log)]
EndMatchesCause ==
    /\ ws.end = "close_request" =>
          /\ ws.log # <<>> /\ LastRead = "text_close"
          /\ LastSent.msg_type = "close" /\ LastSent.re = Len(ws.log)
    /\ ws.end \in {"close_frame", "stream_error"} => ws.log # <<>> /\ LastRead = ws.end
    /\ ws.end = "send_failed" =>
          \A i \in DOMAIN ws.sent : ws.sent[i].re < Len(ws.log) \/ ws.log = <<>>
PongsEchoPings ==
    \A i \in DOMAIN ws.sent :
        ws.sent[i].frame = "pong" =>
            /\ ws.log[ws.sent[i].re] = "ping"
            /\ \E j \in DOMAIN ws.pings :
                 ws.pings[j].at = ws.sent[i].re /\ ws.pings[j].data = ws.sent[i].payload
KeepsLoop ==
    /\ (ws.pc = "replying" /\ ws'.sent # ws.sent /\ ws.reply.msg_type # "close") =>
          ws'.pc = "reading" /\ ws'.end = ""
    /\ (ws.pc = "reading" /\ ws'.log = Append(ws.log, "pong")) =>
          ws'.pc = "reading" /\ ws'.sent = ws.sent
NothingAfterEnd == ws.pc = "closed" => UNCHANGED <<ws, req, POOL, constructed>>

\* C29: the session is closed exactly with one of the five ends, each after
\* its own cause (the close acknowledgment delivered, a Close frame or a
\* receive error read, the stream ended, a send failed); a delivered reply
\* other than the close acknowledgment, and a pong read, leave the loop
\* reading; once closed, nothing is sent, read or processed; and every pong
\* sent answers a ping and carries that ping's bytes.
C29_LoopEndsOnFiveCausesOnly ==
    /\ [](/\ (ws.pc = "closed") <=> (ws.end \in LoopEnds)
          /\ ws.pc # "closed" => ws.end = ""
          /\ EndMatchesCause
          /\ PongsEchoPings)
    /\ [][KeepsLoop /\ NothingAfterEnd]_vars

\* A ping with bytes was answered with its pong, a detection was answered,
\* and the session then ended on a Close frame.
C29_Witness ==
    /\ ws.pc = "closed"
    /\ ws.end = "close_frame"
    /\ ws.log = <<"ping", "binary", "close_frame">>
    /\ Len(ws.sent) = 3
    /\ ws.sent[2].frame = "pong"
    /\ ws.sent[2].payload = ws.pings[1].data
    /\ ws.sent[2].payload = <<0>>
    /\ ws.sent[3].re = 2

\* ------------------------------------------------- claims on cancellation
\* The task of r ends in this step: its response is out, or it was dropped.
TaskGone(r) == req[r].pc \notin {"idle", "panicked"} /\ req'[r].pc = "idle"

\* C30: a request holds a detector only at steps of the pipeline that are
\* no await; a task dropped at an await, or ended after its response, holds
\* none at that moment, and the step leaves the pool and the number of
\* constructed detectors as they were; the pooled and the held detectors
\* together are always the constructed ones.
C30_NoDetectorHeldAcrossAwait ==
    /\ [](/\ \A r \in Reqs : req[r].held # 0 =>
                 ~Suspended(req[r]) /\ req[r].pc \in {"detect", "drop"}
          /\ POOL.some => Len(POOL.objects) + Cardinality(Holders) = constructed)
    /\ [][\A r \in Reqs : TaskGone(r) =>
             /\ req[r].held = 0
             /\ POOL' = POOL
             /\ constructed' = constructed]_vars

\* A task was dropped at an await while the other request holds a detector;
\* the pool keeps the one that is not held.
C30_Witness ==
    /\ InitialSize = 2
    /\ req[FirstReq].pc = "idle"
    /\ req[FirstReq].outcome = "cancelled"
    /\ req[SecondReq].pc = "detect"
    /\ req[SecondReq].held # 0
    /\ Len(POOL.objects) = 1
    /\ constructed = 2

\* ------------------------------------------- claims on the soft early exit
\* From pool_start to the call of the detector; the image is kept up to there.
AcquireStage == {"acquire", "get_pool", "pull", "detect"}
SoftStep(r) == req[r].pc = "soft" /\ req'[r].pc = "returned"

\* C31: an image that decoded to nothing never enters the acquire stage: the
\* request goes from decode to the soft result with no detector taken,
\* added or constructed, and the result carries the decode time measured,
\* with pool_acquisition_time_ms, image_width and image_height 0.
C31_EmptyImageReturnsBeforeAcquire ==
    /\ [](\A r \in Reqs :
            /\ req[r].pc \in AcquireStage => ~req[r].image.empty
            /\ req[r].outcome = "empty_image" =>
                  /\ req[r].pc \in {"soft", "returned", "responded"}
                  /\ NeverAcquired(req[r])
                  /\ PoolUntouched
                  /\ Returned(r) =>
                        /\ req[r].ret.tag = "ok"
                        /\ req[r].ret.body.statistics.pool_acquisition_time_ms = F64Zero
                        /\ req[r].ret.body.statistics.image_width = 0
                        /\ req[r].ret.body.statistics.image_height = 0)
    /\ [][\A r \in Reqs :
            /\ (req[r].pc = "decode" /\ req'[r].pc = "soft") =>
                  /\ req'[r].decode_time = Millis[now - req[r].decode_start]
                  /\ POOL' = POOL /\ constructed' = constructed
            /\ SoftStep(r) =>
                  /\ req'[r].ret.body.statistics.image_decode_time_ms = req[r].decode_time
                  /\ POOL' = POOL /\ constructed' = constructed]_vars

\* The soft result of a binary frame whose decoding took time, the pool as
\* warmed.
C31_Witness ==
    \E r \in Reqs :
        /\ req[r].pc = "returned"
        /\ req[r].kind = "ws_binary"
        /\ req[r].outcome = "empty_image"
        /\ req[r].ret.body.statistics.image_decode_time_ms # F64Zero
        /\ req[r].ret.body.statistics.pool_acquisition_time_ms = F64Zero
        /\ PoolUntouched

\* ------------------------------------------------ claims on conservation
\* The detectors in the pool (in the Vec being filled while Pool::new runs)
\* and those held by requests.
Pooled == Range(POOL.objects) \cup Range(building)
HeldDetectors == {req[r].held : r \in Holders}
\* r, whose pull found the Vec empty, constructs its own detector in this step.
FallbackBuilt(r) == req[r].pc = "construct" /\ req'[r].held = constructed'

\* C32: while the process lives, the detectors constructed so far are exactly
\* those in the pool and those held, each once: the pool holds no detector
\* twice, no two requests hold the same one, none is both pooled and held, and
\* their number is the number constructed; once the pool exists that number
\* grows by one exactly when an acquire that found the pool empty constructs
\* its own detector, and warm-up has left initial_size of them.
C32_DetectorConservation ==
    /\ [](mainPc # "panicked" =>
            /\ Pooled \cup HeldDetectors = 1..constructed
            /\ Pooled \cap HeldDetectors = {}
            /\ Len(POOL.objects) + Len(building) + Cardinality(Holders) = constructed
            /\ POOL.some => constructed >= InitialSize /\ building = <<>>
            /\ ~POOL.some => Holders = {} /\ constructed <= InitialSize)
    /\ [][(POOL.some /\ constructed' # constructed) =>
             /\ constructed' = constructed + 1
             /\ POOL' = POOL
             /\ \E r \in Reqs : FallbackBuilt(r)]_vars

\* A request holds the detector it constructed when it found the pool empty,
\* after the other request has put the warmed one back.
C32_Witness ==
    /\ InitialSize = 1
    /\ constructed = 2
    /\ POOL.objects = <<1>>
    /\ Holders = {SecondReq}
    /\ req[SecondReq].held = 2

\* ------------------------------------------- claims on the pool's growth
\* No request is inside pool.pull or holds a detector.
Quiet == POOL.some /\ \A r \in Reqs : req[r].pc \notin {"construct", "detect", "drop"}

\* C33 as claimed: whenever no request holds a detector, the pool has
\* max(initial_size, P) detectors available, P the largest number of
\* requests that held a detector at the same time.
C33_QuiescentCountIsPeak ==
    (POOL.some /\ Holders = {}) =>
        Len(POOL.objects) = Max2(InitialSize, peak.holding)

\* C33: whenever no request is inside pull or holds a detector, the pool has
\* all constructed detectors available, at least max(initial_size, the most
\* requests that held one at the same time) and at most max(initial_size,
\* the most requests that were at the same time between their pull and the
\* drop of their guard); the number constructed never decreases.
C33_QuiescentCountBounds ==
    /\ [](Quiet =>
            /\ Len(POOL.objects) = constructed
            /\ Len(POOL.objects) >= Max2(InitialSize, peak.holding)
            /\ Len(POOL.objects) <= Max2(InitialSize, peak.acquiring))
    /\ [][constructed' >= constructed]_vars

\* Two detectors in a pool warmed with one, though no two requests ever held
\* one at the same time: the second was constructed by a pull that had found
\* the pool empty just before the first was put back.
C33_Witness ==
    /\ Quiet
    /\ InitialSize = 1
    /\ Len(POOL.objects) = 2
    /\ peak.holding = 1
    /\ peak.acquiring = 2

\* --------------------------------------------- claims on unparsable text
\* C34: a text message that is no request envelope is answered with one
\* envelope of type "error", success = false and message "Invalid request
\* format", carrying no result; no pipeline runs and no detector is acquired
\* for it, and the loop goes on reading unless sending that envelope fails.
C34_UnparsableTextIsOneError ==
    \A k \in 1..Len(ws.log) :
        ws.log[k] = "text_invalid" =>
           /\ Len(FramesFor(k)) <= 1
           /\ \A i \in 1..Len(FramesFor(k)) :
                 /\ FramesFor(k)[i].frame = "text"
                 /\ FramesFor(k)[i].msg_type = "error"
                 /\ ~FramesFor(k)[i].success
                 /\ FramesFor(k)[i].message = "Invalid request format"
                 /\ ~FramesFor(k)[i].has_result
                 /\ FramesFor(k)[i].outcome = ""
           /\ k < Len(ws.log) => Len(FramesFor(k)) = 1
           /\ k = Len(ws.log) =>
                 /\ req[FirstReq] = IdleReq
                 /\ Len(POOL.objects) = constructed
                 /\ peak = [acquiring |-> 0, holding |-> 0] \/ \E j \in 1..(k - 1) : ws.log[j] \in {"text_detect", "binary"}
                 /\ \/ ws.pc = "replying" /\ FramesFor(k) = <<>>
                                          /\ ws.reply = TextReply("text_invalid")
                    \/ ws.pc = "reading" /\ Len(FramesFor(k)) = 1
                    \/ ws.pc = "closed" /\ ws.end = "send_failed" /\ FramesFor(k) = <<>>
                    \/ ws.pc = "closed" /\ ws.end = "stream_end" /\ Len(FramesFor(k)) = 1

\* Two unparsable texts were each answered with the error envelope, no
\* detector ever acquired, and the loop is reading on.
C34_Witness ==
    /\ ws.log = <<"text_invalid", "text_invalid">>
    /\ ws.pc = "reading"
    /\ Len(ws.sent) = 3
    /\ ws.sent[2].message = "Invalid request format"
    /\ ws.sent[3].message = "Invalid request format"
    /\ ws.sent[3].re = 2
    /\ peak = [acquiring |-> 0, holding |-> 0]
    /\ PoolUntouched

\* ------------------------------------------------ claims on the legacy variant
\* The side of the legacy square and its left and upper edge, in f32, for the
\* image of the call geom keeps.
LegacySide == F32Mul(F32Min(F32FromInt(geom.image.width), F32FromInt(geom.image.height)),
                     [m |-> 13421773, e |-> -24])
LegacyLeft == F32Div(F32Sub(F32FromInt(geom.image.width), LegacySide), F32FromInt(2))
LegacyTop == F32Div(F32Sub(F32FromInt(geom.image.height), LegacySide), F32FromInt(2))
WithCorners == Min2(Len(geom.raw.texts), Len(geom.raw.points))
ServerError(q) == q.outcome \in {"construct_error", "detector_error"}

\* C35: in the legacy variant a call of detect_qr_codes that returns has one
\* entry for each text that has a corner Mat, in order and none for the
\* others; the points of each are the square of side 0.8 * min(width, height)
\* centered in the image, as computed in f32 and not rounded, whatever the
\* corner Mat holds, and the response carries these entries.  Every request
\* that reaches detection constructs a detector of its own, held by no other
\* request and not the one main built at start-up, and the pool is never set
\* up; a request that ends before detection constructs none.  A failed
\* construction, like a detector error, ends the request with a bare status
\* 500 and leaves the server running.
C35_LegacySquareAndOwnDetector ==
    /\ [](/\ POOL = NoPool /\ once = "incomplete"
          /\ \A r \in Reqs :
                /\ req[r].pc # "idle" => mainPc = "serving"
                /\ req[r].pc = "detect" <=> req[r].held # 0
                /\ req[r].held # 0 =>
                      /\ req[r].held \in 2..constructed
                      /\ \A q \in Reqs \ {r} : req[q].held # req[r].held
                /\ req[r].pc = "returned" =>
                      /\ req[r].ret.status
                            \in {StatusOk, StatusBadRequest, StatusInternalServerError}
                      /\ req[r].ret.status = StatusInternalServerError <=> ServerError(req[r])
                /\ req[r].pc = "responded" /\ ServerError(req[r]) =>
                      /\ req[r].resp.status = StatusInternalServerError
                      /\ ~req[r].resp.has_body
          /\ geom.pc = "returned" =>
                /\ geom.ret.ok <=> geom.raw.ok
                /\ geom.ret.ok =>
                      /\ Len(geom.ret.results) = WithCorners
                      /\ \A j \in 1..Len(geom.ret.results) :
                            /\ geom.ret.results[j].text = geom.raw.texts[j]
                            /\ geom.ret.results[j].points =
                                  <<<<LegacyLeft, LegacyTop>>,
                                    <<F32Add(LegacyLeft, LegacySide), LegacyTop>>,
                                    <<F32Add(LegacyLeft, LegacySide),
                                      F32Add(LegacyTop, LegacySide)>>,
                                    <<LegacyLeft, F32Add(LegacyTop, LegacySide)>>>>)
    /\ [][/\ constructed' # constructed =>
                /\ constructed' = constructed + 1
                /\ \/ mainPc = "start"
                   \/ \E r \in Reqs : /\ req[r].pc = "acquire"
                                      /\ req'[r].pc = "detect"
                                      /\ req'[r].held = constructed'
          /\ \A r \in Reqs :
                /\ req[r].pc # "detect" /\ req'[r].pc = "detect" =>
                      /\ req[r].pc = "acquire"
                      /\ constructed' = constructed + 1
                /\ req[r].pc = "acquire" /\ req'[r].pc = "returned" =>
                      /\ constructed' = constructed
                      /\ req'[r].ret.status = StatusInternalServerError
                      /\ mainPc' = "serving"
                /\ req[r].pc = "detect" /\ req'[r].pc = "returned" =>
                      /\ geom'.pc = "returned"
                      /\ geom'.image = req[r].image
                      /\ mainPc' = "serving"
                      /\ IF geom'.raw.ok
                         THEN /\ req'[r].ret.status = StatusOk
                              /\ req'[r].ret.body.success
                              /\ req'[r].ret.body.qrcodes = geom'.ret.results
                              /\ req'[r].ret.body.count = Len(geom'.ret.results)
                         ELSE req'[r].ret.status = StatusInternalServerError]_vars

\* A request on a 1x2 image whose detector gave two texts and one corner Mat,
\* a usable one with corners elsewhere, has returned: one entry, the square of
\* the image, its left edge no multiple of a tenth.  The other request holds
\* the third detector built, after main's and the first request's.
C35_Witness ==
    /\ geom.pc = "returned"
    /\ geom.ret.ok
    /\ geom.image.width = 1 /\ geom.image.height = 2
    /\ Len(geom.raw.texts) = 2
    /\ Len(geom.raw.points) = 1
    /\ geom.raw.points[1].rows = 4 /\ geom.raw.points[1].cols = 2 /\ geom.raw.points[1].f32
    /\ Len(geom.ret.results) = 1
    /\ geom.ret.results[1].points[1][1] = LegacyLeft
    /\ ~IsTenth(LegacyLeft)
    /\ req[FirstReq].pc = "returned"
    /\ req[FirstReq].ret.status = StatusOk
    /\ req[FirstReq].ret.body.qrcodes = geom.ret.results
    /\ req[FirstReq].ret.body.statistics.image_width = 1
    /\ req[SecondReq].held = 3
    /\ constructed = 3

====
